---- MODULE Spec2Model ----
(***************************************************************************)
(* Wheel/rail contact solvers of KPFASTSIMUSFD: the Kik-Piotrowski normal  *)
(* contact solvers (kp.py, mkp.py), the grid discretizer (geometry.py) and *)
(* the FastSim / FaStrip tangential solvers (fastsim.py, fastrip.py).     *)
(*                                                                         *)
(* Arithmetic.  The code computes in binary64.  The model computes in the  *)
(* rationals the code's floats stand for: a number is a record            *)
(* [n |-> numerator, d |-> denominator] in lowest terms with d > 0, and    *)
(* +, -, *, / are exact.  d = 0 encodes the IEEE special values the code   *)
(* can produce: [n |-> 0, d |-> 0] is NaN, [n |-> 1, d |-> 0] is +inf and  *)
(* [n |-> -1, d |-> 0] is -inf.  Roots are exact on perfect powers and are *)
(* otherwise rounded to the nearest multiple of 1/RootQ; the norm of a     *)
(* shear stress, where it is irrational, is replaced by an upper bound     *)
(* (RSqrtUp).  Comparisons are exact.  The integers of the model checker   *)
(* have 32 bits: the inputs of the tangential solvers are stated in units  *)
(* (see ForceThreshold) that keep every numerator and denominator within   *)
(* them.                                                                   *)
(***************************************************************************)
EXTENDS Integers, Sequences, FiniteSets, TLC

(***************************************************************************)
(* Integer helpers                                                         *)
(***************************************************************************)
Abs(x) == IF x < 0 THEN -x ELSE x

Sgn(x) == IF x < 0 THEN -1 ELSE IF x > 0 THEN 1 ELSE 0

RECURSIVE GCD(_, _)
GCD(x, y) == IF y = 0 THEN x ELSE GCD(y, x % y)

RECURSIVE IPow(_, _)
IPow(x, k) == IF k = 0 THEN 1 ELSE x * IPow(x, k - 1)

\* floor of the k-th root of m >= 0, by bisection on lo..hi (lo^k <= m < (hi+1)^k)
RECURSIVE IRootIn(_, _, _, _)
IRootIn(m, k, lo, hi) ==
    IF lo >= hi THEN lo
    ELSE LET mid == (lo + hi + 1) \div 2
         IN  IF IPow(mid, k) <= m THEN IRootIn(m, k, mid, hi)
             ELSE IRootIn(m, k, lo, mid - 1)

\* the largest r with r^k below 2^31
RootCap(k) == IF k = 1 THEN 2147483647 ELSE IF k = 2 THEN 46340 ELSE IF k = 3 THEN 1290
              ELSE IF k = 4 THEN 215 ELSE IF k = 5 THEN 73 ELSE 8

IRoot(m, k) == IRootIn(m, k, 0, IF m < RootCap(k) THEN m ELSE RootCap(k))

\* nearest integer to the k-th root of m >= 0
IRootNearest(m, k) ==
    LET r == IRoot(m, k)
    IN  IF r < RootCap(k) /\ m - IPow(r, k) > IPow(r + 1, k) - m THEN r + 1 ELSE r

IsPerfect(m, k) == IPow(IRoot(m, k), k) = m

\* n / d rounded to the nearest integer, ties away from zero (d > 0)
DivNearest(n, d) == Sgn(n) * ((2 * Abs(n) + d) \div (2 * d))

(***************************************************************************)
(* Numbers                                                                 *)
(***************************************************************************)
NaN == [n |-> 0, d |-> 0]

PosInf == [n |-> 1, d |-> 0]

NegInf == [n |-> -1, d |-> 0]

IsNaN(x) == x.d = 0 /\ x.n = 0

IsInf(x) == x.d = 0 /\ x.n # 0

IsFinite(x) == x.d > 0

\* the rational n/d, d # 0, in lowest terms with a positive denominator
Frac(n, d) ==
    LET g == GCD(Abs(n), Abs(d))
    IN  [n |-> Sgn(d) * (n \div g), d |-> Abs(d) \div g]

Num(k) == [n |-> k, d |-> 1]

Zero == Num(0)

One == Num(1)

RNeg(x) == [n |-> -x.n, d |-> x.d]

RAbs(x) == [n |-> Abs(x.n), d |-> x.d]

RSign(x) == Sgn(x.n)

RAdd(x, y) ==
    IF IsNaN(x) \/ IsNaN(y) THEN NaN
    ELSE IF IsInf(x) THEN (IF IsInf(y) /\ y.n # x.n THEN NaN ELSE x)
    ELSE IF IsInf(y) THEN y
    ELSE LET g == GCD(x.d, y.d)
         IN  Frac(x.n * (y.d \div g) + y.n * (x.d \div g), (x.d \div g) * y.d)

RSub(x, y) == RAdd(x, RNeg(y))

RMul(x, y) ==
    IF IsNaN(x) \/ IsNaN(y) THEN NaN
    ELSE IF IsInf(x) \/ IsInf(y)
         THEN (IF x.n = 0 \/ y.n = 0 THEN NaN
               ELSE [n |-> Sgn(x.n) * Sgn(y.n), d |-> 0])
    ELSE IF x.n = 0 \/ y.n = 0 THEN Zero
    ELSE LET g1 == GCD(Abs(x.n), y.d)
             g2 == GCD(Abs(y.n), x.d)
         IN  [n |-> (x.n \div g1) * (y.n \div g2),
              d |-> (x.d \div g2) * (y.d \div g1)]

\* numpy division: x/0 is +-inf for x # 0 and NaN for x = 0 (a warning, no exception)
RDiv(x, y) ==
    IF IsNaN(x) \/ IsNaN(y) THEN NaN
    ELSE IF IsInf(y) THEN (IF IsInf(x) THEN NaN ELSE Zero)
    ELSE IF y.n = 0
         THEN (IF x.n = 0 THEN NaN ELSE [n |-> Sgn(x.n), d |-> 0])
    ELSE IF IsInf(x) THEN [n |-> Sgn(x.n) * Sgn(y.n), d |-> 0]
    ELSE RMul(x, [n |-> Sgn(y.n) * y.d, d |-> Abs(y.n)])

\* a/b < c/d for b, d > 0, by the integer parts and then the remainders (the
\* continued fractions), which needs no product
RECURSIVE FracLess(_, _, _, _)
FracLess(a, b, c, d) ==
    IF a \div b # c \div d THEN a \div b < c \div d
    ELSE IF c % d = 0 THEN FALSE
    ELSE IF a % b = 0 THEN TRUE
    ELSE FracLess(d, c % d, b, a % b)

\* comparisons; every comparison with NaN is false, as in IEEE
RLt(x, y) ==
    IF IsNaN(x) \/ IsNaN(y) THEN FALSE
    ELSE IF IsInf(x) THEN x.n < 0 /\ ~(IsInf(y) /\ y.n < 0)
    ELSE IF IsInf(y) THEN y.n > 0
    ELSE FracLess(x.n, x.d, y.n, y.d)

RGt(x, y) == RLt(y, x)

RLe(x, y) == ~IsNaN(x) /\ ~IsNaN(y) /\ (x = y \/ RLt(x, y))

RGe(x, y) == RLe(y, x)

RMax(x, y) == IF RGt(y, x) THEN y ELSE x

\* x rounded to the nearest multiple of 1/q
RoundTo(x, q) ==
    IF ~IsFinite(x) THEN x ELSE Frac(DivNearest(x.n * q, x.d), q)

\* precision of the roots that are not rational
RootQ == 10

\* roots above the cube root are kept to fewer digits, so that the scaled
\* radicand fits the model checker's integers
RootScale(k) == IF k <= 3 THEN RootQ ELSE IF k <= 5 THEN 10 ELSE 4

\* k-th root of x: NaN below zero (numpy's sqrt and power of a negative base),
\* exact on perfect k-th powers, else rounded to the nearest multiple of
\* 1/RootScale(k)
RRoot(x, k) ==
    IF IsNaN(x) THEN NaN
    ELSE IF x.n < 0 THEN NaN
    ELSE IF IsInf(x) THEN PosInf
    ELSE IF x.n = 0 \/ k = 1 THEN x
    ELSE LET rn == IRoot(x.n, k)
             rd == IRoot(x.d, k)
         IN  IF IPow(rn, k) = x.n /\ IPow(rd, k) = x.d THEN [n |-> rn, d |-> rd]
             ELSE Frac(IRootNearest((x.n * IPow(RootScale(k), k)) \div x.d, k), RootScale(k))

RSqrt(x) == RRoot(x, 2)

RootIsExact(x, k) == IsFinite(x) /\ x.n >= 0 /\ IsPerfect(x.n, k) /\ IsPerfect(x.d, k)

(***************************************************************************)
(* geometry.py                                                             *)
(***************************************************************************)
\* The yaw angles the calls are made with.  cos and sin of an angle are
\* irrational in general; the angles are those whose cos^2 is rational.
\* "5e-7" is a non-zero angle below the 1e-6 threshold of calculate_curvatures.
YawAngles == {"0", "5e-7", "pi/6", "pi/4", "-pi/3"}

YawIsNegligible(yaw_angle) == yaw_angle \in {"0", "5e-7"}

Cos2(yaw_angle) ==
    CASE yaw_angle = "pi/6" -> Frac(3, 4)
      [] yaw_angle = "pi/4" -> Frac(1, 2)
      [] yaw_angle = "-pi/3" -> Frac(1, 4)
      [] OTHER -> One

Sin2(yaw_angle) == RSub(One, Cos2(yaw_angle))

calculate_curvatures(wheel_radius, rail_radius, yaw_angle) ==
    LET longitudinal_curvature == RDiv(One, wheel_radius)
        lateral_curvature == RDiv(One, rail_radius)
    IN  IF ~YawIsNegligible(yaw_angle)
        THEN LET longitudinal_blend ==
                     RAdd(RMul(longitudinal_curvature, Cos2(yaw_angle)),
                          RMul(lateral_curvature, Sin2(yaw_angle)))
                 \* the lateral blend reads the longitudinal curvature
                 \* the line above has already overwritten
                 lateral_blend ==
                     RAdd(RMul(lateral_curvature, Cos2(yaw_angle)),
                          RMul(longitudinal_blend, Sin2(yaw_angle)))
             IN  [longitudinal |-> longitudinal_blend, lateral |-> lateral_blend]
        ELSE [longitudinal |-> longitudinal_curvature, lateral |-> lateral_curvature]

\* np.linspace(start, stop, num), indexed 0 .. num-1
linspace(start, stop, num) ==
    [i \in 0 .. num - 1 |->
        IF num = 1 THEN start
        ELSE RAdd(start, RMul(Num(i), RDiv(RSub(stop, start), Num(num - 1))))]

RSq(x) == RMul(x, x)

\* (X/a)^2 + (Y/b)^2 at grid point (j, i) of np.meshgrid(x, y): X[j,i] = x[i], Y[j,i] = y[j]
EllipseSum(a, b, x, y, j, i) == RAdd(RSq(RDiv(x[i], a)), RSq(RDiv(y[j], b)))

discretize_contact_patch(a, b, discretization) ==
    LET x == linspace(RNeg(a), a, discretization)
        y == linspace(RNeg(b), b, discretization)
    IN  [x |-> x, y |-> y,
         mask |-> [j \in 0 .. discretization - 1 |->
                     [i \in 0 .. discretization - 1 |->
                        RLe(EllipseSum(a, b, x, y, j, i), One)]]]

(***************************************************************************)
(* kp.py, mkp.py: the normal contact solvers                               *)
(***************************************************************************)
\* np.pi to the model's precision
Pi == Frac(157, 50)

equivalent_youngs_modulus(self) ==
    RDiv(One,
         RAdd(RDiv(RSub(One, RSq(self.wheel_poisson_ratio)), self.wheel_youngs_modulus),
              RDiv(RSub(One, RSq(self.rail_poisson_ratio)), self.rail_youngs_modulus)))

CurvatureSum(curvatures) == RAdd(curvatures.longitudinal, curvatures.lateral)

\* a = (3 F / (4 E* (k_long + k_lat))) ** (1/3)
SemiAxisA(self, normal_force, curvatures) ==
    RRoot(RDiv(RMul(Num(3), normal_force),
               RMul(RMul(Num(4), equivalent_youngs_modulus(self)),
                    CurvatureSum(curvatures))), 3)

\* b = a * sqrt(k_long / k_lat)
SemiAxisB(a, curvatures) ==
    RMul(a, RSqrt(RDiv(curvatures.longitudinal, curvatures.lateral)))

\* row-major flattening of an N x N field, as ndarray.flatten() does
Flatten(field, num) == [k \in 0 .. num * num - 1 |-> field[k \div num][k % num]]

\* np.column_stack((X.flatten(), Y.flatten())) of np.meshgrid(x, y)
ContactPoints(x, y, num) == [k \in 0 .. num * num - 1 |-> <<x[k % num], y[k \div num]>>]

\* pressure_distribution[pressure_distribution < 0] = 0: NaN < 0 is false
ClipNegative(p) == IF RLt(p, Zero) THEN Zero ELSE p

\* the semi-axes of both solvers before any correction
HertzSemiAxes(self, normal_force, yaw_angle) ==
    LET curvatures == calculate_curvatures(self.wheel_radius, self.rail_radius, yaw_angle)
        a == SemiAxisA(self, normal_force, curvatures)
    IN  [a |-> a, b |-> SemiAxisB(a, curvatures)]

\* the semi-ellipsoidal pressure of KikPiotrowski at grid point (j, i): the
\* term under the root is set to zero where it is negative
KP_pressure(max_pressure, a, b, x, y, j, i) ==
    LET t == RSub(RSub(One, RSq(RDiv(x[i], a))), RSq(RDiv(y[j], b)))
        ellipse_term == IF RLt(t, Zero) THEN Zero ELSE t
    IN  ClipNegative(RMul(max_pressure, RSqrt(ellipse_term)))

KP_pressure_distribution(max_pressure, a, b, num) ==
    LET x == linspace(RNeg(a), a, num)
        y == linspace(RNeg(b), b, num)
    IN  Flatten([j \in 0 .. num - 1 |-> [i \in 0 .. num - 1 |->
                    KP_pressure(max_pressure, a, b, x, y, j, i)]], num)

\* area, pressures and grid of KikPiotrowski.calculate_contact_patch for the
\* semi-axes a, b
KP_patch(self, normal_force, a, b, area) ==
    [a |-> a, b |-> b, area |-> area,
     max_pressure |-> RDiv(RMul(Frac(3, 2), normal_force), area),
     mean_pressure |-> RDiv(normal_force, area),
     contact_points |-> ContactPoints(linspace(RNeg(a), a, self.discretization),
                                      linspace(RNeg(b), b, self.discretization),
                                      self.discretization),
     pressure_distribution |->
         KP_pressure_distribution(RDiv(RMul(Frac(3, 2), normal_force), area),
                                  a, b, self.discretization)]

KP_patch_of_axes(self, normal_force, axes) ==
    KP_patch(self, normal_force, axes.a, axes.b, RMul(RMul(Pi, axes.a), axes.b))

KP_calculate_contact_patch(self, normal_force, yaw_angle) ==
    KP_patch_of_axes(self, normal_force, HertzSemiAxes(self, normal_force, yaw_angle))

\* x ** e for a rational exponent e > 0: NaN for a negative base
RPow(x, e) ==
    IF IsNaN(x) \/ IsNaN(e) THEN NaN
    ELSE IF x.n < 0 THEN NaN
    ELSE IF x.n = 0 THEN Zero
    ELSE [n |-> IPow(RRoot(x, e.d).n, e.n), d |-> IPow(RRoot(x, e.d).d, e.n)]

\* the pressure of ModifiedKikPiotrowski at grid point (j, i).  In the
\* elliptical branch np.sqrt of a negative term is NaN, and the clipping
\* leaves NaN in place.
MKP_pressure(is_non_elliptical, excess, max_pressure, a, b, x, y, j, i) ==
    ClipNegative(
        IF is_non_elliptical
        THEN RMul(max_pressure,
                  RPow(RSub(One, RSq(RSqrt(EllipseSum(a, b, x, y, j, i)))),
                       RAdd(Frac(1, 2), RMul(Frac(1, 10), excess))))
        ELSE RMul(max_pressure,
                  RSqrt(RSub(RSub(One, RSq(RDiv(x[i], a))), RSq(RDiv(y[j], b))))))

MKP_pressure_distribution(is_non_elliptical, excess, max_pressure, a, b, num) ==
    LET x == linspace(RNeg(a), a, num)
        y == linspace(RNeg(b), b, num)
    IN  Flatten([j \in 0 .. num - 1 |-> [i \in 0 .. num - 1 |->
                    MKP_pressure(is_non_elliptical, excess, max_pressure, a, b, x, y, j, i)]],
                num)

\* the grid and the pressures for the corrected semi-axes a, b
MKP_patch(self, normal_force, semi_axes_ratio, is_non_elliptical, a, b, area, max_pressure) ==
    [a |-> a, b |-> b, area |-> area,
     max_pressure |-> max_pressure,
     mean_pressure |-> RDiv(normal_force, area),
     contact_points |-> ContactPoints(linspace(RNeg(a), a, self.discretization),
                                      linspace(RNeg(b), b, self.discretization),
                                      self.discretization),
     pressure_distribution |->
         MKP_pressure_distribution(is_non_elliptical,
                                   RSub(semi_axes_ratio, self.semi_axes_ratio_limit),
                                   max_pressure, a, b, self.discretization),
     is_non_elliptical |-> is_non_elliptical,
     semi_axes_ratio |-> semi_axes_ratio]

\* as MKP_patch_of_corrected, but the pressure adjustment of the non-elliptical
\* branch is applied whatever the flag says
MKP_patch_always_adjusted(self, normal_force, semi_axes_ratio, is_non_elliptical, correction_factor, a, b) ==
    LET area == IF is_non_elliptical
                THEN RMul(RMul(RMul(Pi, a), b), correction_factor)
                ELSE RMul(RMul(Pi, a), b)
    IN  MKP_patch(self, normal_force, semi_axes_ratio, is_non_elliptical, a, b, area,
                  RMul(RDiv(RMul(Frac(3, 2), normal_force), area),
                       RAdd(One, RMul(Frac(1, 10),
                                      RSub(semi_axes_ratio, self.semi_axes_ratio_limit)))))

\* the contact area and the maximal pressure
MKP_patch_of_corrected(self, normal_force, semi_axes_ratio, is_non_elliptical, correction_factor, a, b) ==
    LET area == IF is_non_elliptical
                THEN RMul(RMul(RMul(Pi, a), b), correction_factor)
                ELSE RMul(RMul(Pi, a), b)
    IN  MKP_patch(self, normal_force, semi_axes_ratio, is_non_elliptical, a, b, area,
                  IF is_non_elliptical
                  THEN RMul(RDiv(RMul(Frac(3, 2), normal_force), area),
                            RAdd(One, RMul(Frac(1, 10),
                                           RSub(semi_axes_ratio, self.semi_axes_ratio_limit))))
                  ELSE RDiv(RMul(Frac(3, 2), normal_force), area))

\* as MKP_patch_of_ratio, but the correction factor falls with the excess of
\* the ratio over the limit itself, not with its relative excess
MKP_patch_of_ratio_excess(self, normal_force, a, b, semi_axes_ratio) ==
    LET is_non_elliptical == RGt(semi_axes_ratio, self.semi_axes_ratio_limit)
        correction_factor ==
            RSub(One, RMul(Frac(1, 4),
                           RSub(semi_axes_ratio, self.semi_axes_ratio_limit)))
    IN  MKP_patch_of_corrected(self, normal_force, semi_axes_ratio, is_non_elliptical,
            correction_factor,
            IF is_non_elliptical /\ RGt(a, b) THEN RMul(a, RSqrt(correction_factor)) ELSE a,
            IF is_non_elliptical /\ ~RGt(a, b) THEN RMul(b, RSqrt(correction_factor)) ELSE b)

\* as MKP_patch_of_ratio, but only a patch with a > 1 is flagged
MKP_patch_of_ratio_of_long(self, normal_force, a, b, semi_axes_ratio) ==
    LET is_non_elliptical ==
            RGt(semi_axes_ratio, self.semi_axes_ratio_limit) /\ RGt(a, One)
        correction_factor ==
            RSub(One, RMul(Frac(1, 4),
                           RSub(One, RDiv(self.semi_axes_ratio_limit, semi_axes_ratio))))
    IN  MKP_patch_of_corrected(self, normal_force, semi_axes_ratio, is_non_elliptical,
            correction_factor,
            IF is_non_elliptical /\ RGt(a, b) THEN RMul(a, RSqrt(correction_factor)) ELSE a,
            IF is_non_elliptical /\ ~RGt(a, b) THEN RMul(b, RSqrt(correction_factor)) ELSE b)

\* as MKP_patch_of_ratio, but a patch whose ratio is the limit is flagged too
MKP_patch_of_ratio_inclusive(self, normal_force, a, b, semi_axes_ratio) ==
    LET is_non_elliptical == RGe(semi_axes_ratio, self.semi_axes_ratio_limit)
        correction_factor ==
            RSub(One, RMul(Frac(1, 4),
                           RSub(One, RDiv(self.semi_axes_ratio_limit, semi_axes_ratio))))
    IN  MKP_patch_of_corrected(self, normal_force, semi_axes_ratio, is_non_elliptical,
            correction_factor,
            IF is_non_elliptical /\ RGt(a, b) THEN RMul(a, RSqrt(correction_factor)) ELSE a,
            IF is_non_elliptical /\ ~RGt(a, b) THEN RMul(b, RSqrt(correction_factor)) ELSE b)

\* the correction of the larger semi-axis of a non-elliptical patch
MKP_patch_of_ratio(self, normal_force, a, b, semi_axes_ratio) ==
    LET is_non_elliptical == RGt(semi_axes_ratio, self.semi_axes_ratio_limit)
        correction_factor ==
            RSub(One, RMul(Frac(1, 4),
                           RSub(One, RDiv(self.semi_axes_ratio_limit, semi_axes_ratio))))
    IN  MKP_patch_of_corrected(self, normal_force, semi_axes_ratio, is_non_elliptical,
            correction_factor,
            IF is_non_elliptical /\ RGt(a, b) THEN RMul(a, RSqrt(correction_factor)) ELSE a,
            IF is_non_elliptical /\ ~RGt(a, b) THEN RMul(b, RSqrt(correction_factor)) ELSE b)

MKP_patch_of_axes(self, normal_force, axes) ==
    MKP_patch_of_ratio(self, normal_force, axes.a, axes.b,
                       RMax(RDiv(axes.a, axes.b), RDiv(axes.b, axes.a)))

MKP_calculate_contact_patch(self, normal_force, yaw_angle) ==
    MKP_patch_of_axes(self, normal_force, HertzSemiAxes(self, normal_force, yaw_angle))

calculate_contact_patch(self, normal_force, yaw_angle) ==
    IF self.variant = "MKP" THEN MKP_calculate_contact_patch(self, normal_force, yaw_angle)
    ELSE KP_calculate_contact_patch(self, normal_force, yaw_angle)

KP_calculate_penetration(self, normal_force) ==
    LET curvatures == calculate_curvatures(self.wheel_radius, self.rail_radius, "0")
    IN  RDiv(RMul(RSq(SemiAxisA(self, normal_force, curvatures)), CurvatureSum(curvatures)),
             Num(3))

\* 4 E* (k_long + k_lat) a^3 / 3
ForceOfSemiAxis(self, curvature_sum, a) ==
    RDiv(RMul(RMul(RMul(Num(4), equivalent_youngs_modulus(self)), curvature_sum),
              RMul(a, RSq(a))),
         Num(3))

\* as KP_calculate_normal_force, but with the force of the seed semi-axis
\* a = sqrt(penetration) of an iteration, not the a of the penetration
KP_calculate_normal_force_seed(self, penetration) ==
    LET curvatures == calculate_curvatures(self.wheel_radius, self.rail_radius, "0")
    IN  ForceOfSemiAxis(self, CurvatureSum(curvatures), RSqrt(penetration))

KP_calculate_normal_force(self, penetration) ==
    LET curvatures == calculate_curvatures(self.wheel_radius, self.rail_radius, "0")
    IN  ForceOfSemiAxis(self, CurvatureSum(curvatures),
                        RSqrt(RDiv(RMul(Num(3), penetration), CurvatureSum(curvatures))))

MKP_penetration_of_patch(self, curvature_sum, contact_patch) ==
    IF contact_patch.is_non_elliptical
    THEN RMul(RDiv(RMul(RMul(contact_patch.a, contact_patch.b), curvature_sum),
                   RAdd(contact_patch.a, contact_patch.b)),
              RAdd(One, RMul(Frac(3, 20),
                             RSub(contact_patch.semi_axes_ratio,
                                  self.semi_axes_ratio_limit))))
    ELSE RDiv(RMul(RSq(contact_patch.a), curvature_sum), Num(3))

MKP_calculate_penetration(self, normal_force, yaw_angle) ==
    MKP_penetration_of_patch(self,
        CurvatureSum(calculate_curvatures(self.wheel_radius, self.rail_radius, yaw_angle)),
        MKP_calculate_contact_patch(self, normal_force, yaw_angle))

\* the closed-form estimate that seeds the minimizer
MKP_initial_force(self, penetration, yaw_angle) ==
    LET curvatures == calculate_curvatures(self.wheel_radius, self.rail_radius, yaw_angle)
    IN  ForceOfSemiAxis(self, CurvatureSum(curvatures),
                        RSqrt(RDiv(RMul(Num(3), penetration), CurvatureSum(curvatures))))

\* as MKP_calculate_normal_force, but returning the point the minimizer
\* stopped at whether it reports success or not
MKP_calculate_normal_force_unchecked(self, penetration, yaw_angle, result) == result.x

\* scipy.optimize.minimize is the environment: `result' is what it reports,
\* [success |-> BOOLEAN, x |-> the point it stopped at]
MKP_calculate_normal_force(self, penetration, yaw_angle, result) ==
    IF result.success THEN result.x
    ELSE MKP_initial_force(self, penetration, yaw_angle)

calculate_penetration(self, normal_force) ==
    IF self.variant = "MKP" THEN MKP_calculate_penetration(self, normal_force, "0")
    ELSE KP_calculate_penetration(self, normal_force)

calculate_normal_force(self, penetration, result) ==
    IF self.variant = "MKP" THEN MKP_calculate_normal_force(self, penetration, "0", result)
    ELSE KP_calculate_normal_force(self, penetration)

\* An optional argument is <<>> (None) or <<value>>.
None == <<>>

Some(v) == <<v>>

\* the result dictionary of solve_contact_problem
SolveResult(self, penetration, normal_force, yaw_angle) ==
    [raised |-> "",
     penetration |-> penetration,
     normal_force |-> normal_force,
     contact_patch |-> calculate_contact_patch(self, normal_force, yaw_angle)]

\* as solve_contact_problem, but a penetration supplied together with a
\* normal force silently wins
solve_contact_problem_lenient(self, penetration, normal_force, yaw_angle, result) ==
    IF penetration = None /\ normal_force = None
    THEN [raised |-> "ValueError"]
    ELSE SolveResult(self,
             IF penetration # None THEN penetration[1]
             ELSE calculate_penetration(self, normal_force[1]),
             IF penetration # None THEN calculate_normal_force(self, penetration[1], result)
             ELSE normal_force[1],
             yaw_angle)

\* KikPiotrowski.solve_contact_problem, inherited unchanged by
\* ModifiedKikPiotrowski; `result' is what the minimizer would report
solve_contact_problem(self, penetration, normal_force, yaw_angle, result) ==
    IF (penetration = None /\ normal_force = None)
         \/ (penetration # None /\ normal_force # None)
    THEN [raised |-> "ValueError"]
    ELSE SolveResult(self,
             IF penetration # None THEN penetration[1]
             ELSE calculate_penetration(self, normal_force[1]),
             IF penetration # None THEN calculate_normal_force(self, penetration[1], result)
             ELSE normal_force[1],
             yaw_angle)

\* the classes that wrap a normal solver
Wrappers == {"KPFastSim", "KPFastSimUSFD", "MKPFaStrip"}

\* what a call without creepages on class `caller' makes of the outcome of the
\* normal solver: the solver's own classes hand it out, the wrappers put it in
\* a dictionary of their own, and what the solver raises propagates
WrapNormalSolution(caller, normal_solution) ==
    IF caller \notin Wrappers \/ normal_solution.raised # "" THEN normal_solution
    ELSE IF caller = "KPFastSimUSFD"
    THEN [raised |-> "", normal_solution |-> normal_solution,
          tangential_solution |-> None, wear_solution |-> None]
    ELSE [raised |-> "", normal_solution |-> normal_solution,
          tangential_solution |-> None]

\* solve_contact_problem of KikPiotrowski, ModifiedKikPiotrowski, KPFastSim,
\* MKPFaStrip and KPFastSimUSFD, called without creepages: in the wrappers the
\* normal solver runs first
Class_solve_contact_problem(caller, self, penetration, normal_force, yaw_angle, result) ==
    WrapNormalSolution(caller,
        solve_contact_problem(self, penetration, normal_force, yaw_angle, result))

(***************************************************************************)
(* fastsim.py, fastrip.py: the tangential contact solvers                  *)
(***************************************************************************)
\* the Kalker coefficients C11, C22, C23 for the axis ratio g = max(a/b, b/a)
KalkerCoefficients(a, b, g) ==
    IF RGe(a, b)
    THEN [C11 |-> RAdd(Frac(239, 100), RMul(Frac(338, 1000), g)),
          C22 |-> RAdd(Frac(239, 100), RDiv(Frac(517, 1000), g)),
          C23 |-> RAdd(Frac(442, 1000), RDiv(Frac(165, 1000), g))]
    ELSE [C11 |-> RAdd(Frac(239, 100), RDiv(Frac(338, 1000), g)),
          C22 |-> RAdd(Frac(239, 100), RMul(Frac(517, 1000), g)),
          C23 |-> RAdd(Frac(442, 1000), RMul(Frac(165, 1000), g))]

FlexibilityOfKalker(self, a, b, C) ==
    [L1 |-> RDiv(C.C11, RMul(RMul(Num(4), self.shear_modulus), a)),
     L2 |-> RDiv(C.C22, RMul(RMul(Num(4), self.shear_modulus), b)),
     L3 |-> RDiv(C.C23, RMul(RMul(Num(4), self.shear_modulus), RSqrt(RMul(a, b))))]

calculate_flexibility_coefficients(self, a, b) ==
    FlexibilityOfKalker(self, a, b,
        KalkerCoefficients(a, b, RMax(RDiv(a, b), RDiv(b, a))))

FlexibilityOfStrip(self, strip_width, strip_ratio) ==
    [L1 |-> RMul(RDiv(Pi, RMul(RMul(Num(4), self.shear_modulus), strip_width)),
                 RAdd(One, RMul(Frac(115, 100), strip_ratio))),
     L2 |-> RMul(RDiv(Pi, RMul(RMul(Num(4), self.shear_modulus), strip_width)),
                 RAdd(One, RDiv(Frac(115, 100), strip_ratio))),
     L3 |-> RMul(RMul(RDiv(Pi, RMul(RMul(Num(4), self.shear_modulus), strip_width)),
                      Frac(1, 2)),
                 RSqrt(strip_ratio))]

calculate_strip_flexibility_coefficients(self, a, b, strip_width) ==
    FlexibilityOfStrip(self, strip_width, RDiv(strip_width, RMul(Num(2), a)))

\* an upper bound of the square root of q >= 0, equal to it where it is
\* rational: the root of the numerator is rounded up, the root of the
\* denominator down
RSqrtUp(q) ==
    IF ~IsFinite(q) \/ q.n <= 0 THEN RSqrt(q)
    ELSE Frac(IF IsPerfect(q.n, 2) THEN IRoot(q.n, 2) ELSE IRoot(q.n, 2) + 1,
              IRoot(q.d, 2))

\* shear_norm = np.sqrt(stress_x**2 + stress_y**2): the magnitude of the one
\* component where the other is zero, else the root (or its upper bound)
ShearNorm(stress_x, stress_y) ==
    IF stress_y = Zero THEN RAbs(stress_x)
    ELSE IF stress_x = Zero THEN RAbs(stress_y)
    ELSE RSqrtUp(RAdd(RSq(stress_x), RSq(stress_y)))

\* as NormExceeds, but against twice the traction bound
NormExceeds_doubled(stress_x, stress_y, traction_bound) ==
    IF stress_y = Zero THEN RGt(RAbs(stress_x), RMul(Num(2), traction_bound))
    ELSE IF stress_x = Zero THEN RGt(RAbs(stress_y), RMul(Num(2), traction_bound))
    ELSE IF IsNaN(stress_x) \/ IsNaN(stress_y) \/ IsNaN(traction_bound) THEN FALSE
    ELSE IF RLe(traction_bound, Zero) THEN TRUE
    ELSE RGt(RAdd(RSq(stress_x), RSq(stress_y)), RSq(RMul(Num(2), traction_bound)))

\* shear_norm > traction_bound, decided exactly: on the magnitude of the one
\* component where the other is zero, else by the sign of the bound where it
\* is not positive, else on the squares
NormExceeds(stress_x, stress_y, traction_bound) ==
    IF stress_y = Zero THEN RGt(RAbs(stress_x), traction_bound)
    ELSE IF stress_x = Zero THEN RGt(RAbs(stress_y), traction_bound)
    ELSE IF IsNaN(stress_x) \/ IsNaN(stress_y) \/ IsNaN(traction_bound) THEN FALSE
    ELSE IF RLe(traction_bound, Zero) THEN TRUE
    ELSE RGt(RAdd(RSq(stress_x), RSq(stress_y)), RSq(traction_bound))

\* as ScaleFactor, but scaling the trial stress to twice the traction bound
ScaleFactor_doubled(traction_bound, stress_x, stress_y) ==
    IF traction_bound = Zero /\ IsFinite(stress_x) /\ IsFinite(stress_y) THEN Zero
    ELSE RDiv(RMul(Num(2), traction_bound), ShearNorm(stress_x, stress_y))

\* scale_factor = traction_bound / shear_norm, for shear_norm > traction_bound
ScaleFactor(traction_bound, stress_x, stress_y) ==
    IF traction_bound = Zero /\ IsFinite(stress_x) /\ IsFinite(stress_y) THEN Zero
    ELSE RDiv(traction_bound, ShearNorm(stress_x, stress_y))

\* traction_bound = friction_coefficient * pressure, where pressure is the
\* patch's pressure_distribution inside the mask and zero outside
TractionBound(self, mask, pressure_distribution) ==
    [k \in 0 .. self.discretization * self.discretization - 1 |->
        RMul(self.friction_coefficient,
             IF mask[k \div self.discretization][k % self.discretization]
             THEN pressure_distribution[k] ELSE Zero)]

\* dx = 2 * a / self.discretization
GridStep(self, a) == RDiv(RMul(Num(2), a), Num(self.discretization))

\* The local arrays of solve_tangential_problem, flattened row by row (point
\* (j, i) at index j * discretization + i), with the adhesion counter.
\* `step' counts the iterations of the two loops over the grid.  `visited'
\* and `adhering' are not in the code: they record the points the loops
\* processed, in order, and those that incremented the counter.
InitialFields(num) ==
    [shear_stress_x |-> [k \in 0 .. num * num - 1 |-> Zero],
     shear_stress_y |-> [k \in 0 .. num * num - 1 |-> Zero],
     slip_x |-> [k \in 0 .. num * num - 1 |-> Zero],
     slip_y |-> [k \in 0 .. num * num - 1 |-> Zero],
     adhesion_points |-> 0,
     step |-> 0,
     visited |-> <<>>,
     adhering |-> {}]


\* a point in adhesion keeps its slip and stress and increments the counter
AdheringPoint(m, k, slip_x, slip_y, stress_x, stress_y) ==
    [m EXCEPT !.slip_x[k] = slip_x, !.slip_y[k] = slip_y,
              !.shear_stress_x[k] = stress_x, !.shear_stress_y[k] = stress_y,
              !.adhesion_points = @ + 1,
              !.visited = Append(@, k), !.adhering = @ \cup {k}]

\* as SlidingPoint, but keeping the slip of the trial stress
SlidingPoint_keeping_slip(self, m, k, dx, stress_x, stress_y, scale_factor) ==
    [m EXCEPT !.shear_stress_x[k] = RMul(stress_x, scale_factor),
              !.shear_stress_y[k] = RMul(stress_y, scale_factor),
              !.slip_x[k] = RDiv(stress_x, RMul(self.shear_modulus, dx)),
              !.slip_y[k] = RDiv(stress_y, RMul(self.shear_modulus, dx)),
              !.visited = Append(@, k)]

\* a point in sliding: both stress components are multiplied by
\* scale_factor = traction_bound / shear_norm and the slip is recomputed
SlidingPoint(self, m, k, dx, stress_x, stress_y, scale_factor) ==
    [m EXCEPT !.shear_stress_x[k] = RMul(stress_x, scale_factor),
              !.shear_stress_y[k] = RMul(stress_y, scale_factor),
              !.slip_x[k] = RDiv(RMul(stress_x, scale_factor), RMul(self.shear_modulus, dx)),
              !.slip_y[k] = RDiv(RMul(stress_y, scale_factor), RMul(self.shear_modulus, dx)),
              !.visited = Append(@, k)]

\* Coulomb's law at point k for the trial stress of its slip
CoulombLaw(self, m, k, dx, traction_bound, slip_x, slip_y, stress_x, stress_y) ==
    IF NormExceeds(stress_x, stress_y, traction_bound)
    THEN SlidingPoint(self, m, k, dx, stress_x, stress_y,
                      ScaleFactor(traction_bound, stress_x, stress_y))
    ELSE AdheringPoint(m, k, slip_x, slip_y, stress_x, stress_y)

\* shear_stress = slip * shear_modulus * dx
SlipAtPoint(self, m, k, dx, traction_bound, slip_x, slip_y) ==
    CoulombLaw(self, m, k, dx, traction_bound, slip_x, slip_y,
               RMul(RMul(slip_x, self.shear_modulus), dx),
               RMul(RMul(slip_y, self.shear_modulus), dx))

\* as Elastic, but from the stress of the point of the row before in the
\* same column
Elastic_of_row_before(shear_stress, L, in_mask, num, j, i) ==
    IF j > 0 /\ in_mask[j - 1][i] THEN RMul(shear_stress[(j - 1) * num + i], L)
    ELSE Zero

\* the elastic displacement at (j, i): the stress of the neighbour (j, i+1)
\* times the flexibility where the neighbour is in the mask, else zero
Elastic(shear_stress, L, in_mask, num, j, i) ==
    IF i < num - 1 /\ in_mask[j][i + 1] THEN RMul(shear_stress[j * num + i + 1], L)
    ELSE Zero

\* the body of the two loops at a point (j, i) of the mask: the rigid slip
\* (spin taken at y_spin[j]) less the elastic displacement over dx
ProcessPoint(self, grid, in_mask, y_spin, traction_bound, creepages, L, dx, m, j, i) ==
    SlipAtPoint(self, m, j * self.discretization + i, dx,
        traction_bound[j * self.discretization + i],
        RSub(RSub(creepages.longitudinal, RMul(creepages.spin, y_spin[j])),
             RDiv(Elastic(m.shear_stress_x, L.L1, in_mask, self.discretization, j, i), dx)),
        RSub(RAdd(creepages.lateral, RMul(creepages.spin, grid.x[i])),
             RDiv(Elastic(m.shear_stress_y, L.L2, in_mask, self.discretization, j, i), dx)))

\* one iteration of the inner loop, at (j, i)
MarchStep(self, grid, in_mask, y_spin, traction_bound, creepages, L, dx, m, j, i) ==
    IF in_mask[j][i]
    THEN ProcessPoint(self, grid, in_mask, y_spin, traction_bound, creepages, L, dx,
                      [m EXCEPT !.step = @ + 1], j, i)
    ELSE [m EXCEPT !.step = @ + 1]

\* as ColumnAt, but from the leading edge to the trailing edge
ColumnAt_leading(num, step) == step \div num

\* for i in range(discretization - 1, -1, -1): the column of iteration `step'
\* of the two loops
ColumnAt(num, step) == num - 1 - (step \div num)

\* for i in range(discretization - 1, -1, -1): for j in range(discretization):
\* iteration m.step of the two loops is at column ColumnAt(discretization,
\* m.step) and row m.step mod discretization
RECURSIVE March(_, _, _, _, _, _, _, _, _)
March(self, grid, in_mask, y_spin, traction_bound, creepages, L, dx, m) ==
    IF m.step >= self.discretization * self.discretization THEN m
    ELSE March(self, grid, in_mask, y_spin, traction_bound, creepages, L, dx,
               MarchStep(self, grid, in_mask, y_spin, traction_bound, creepages, L, dx, m,
                         m.step % self.discretization,
                         ColumnAt(self.discretization, m.step)))

\* np.sum(field[mask]) over the flat indices below k
RECURSIVE SumMasked(_, _, _, _)
SumMasked(field, mask, num, k) ==
    IF k = 0 THEN Zero
    ELSE RAdd(SumMasked(field, mask, num, k - 1),
              IF mask[(k - 1) \div num][(k - 1) % num] THEN field[k - 1] ELSE Zero)

\* field[mask]: the values at the masked points, row by row
RECURSIVE Masked(_, _, _, _)
Masked(field, mask, num, k) ==
    IF k = 0 THEN <<>>
    ELSE IF mask[(k - 1) \div num][(k - 1) % num]
    THEN Append(Masked(field, mask, num, k - 1), field[k - 1])
    ELSE Masked(field, mask, num, k - 1)

\* np.sum(mask)
RECURSIVE CountMasked(_, _, _)
CountMasked(mask, num, k) ==
    IF k = 0 THEN 0
    ELSE CountMasked(mask, num, k - 1)
           + (IF mask[(k - 1) \div num][(k - 1) % num] THEN 1 ELSE 0)

\* as MomentTerms, but of the longitudinal stress alone
MomentTerms_longitudinal(grid, m, num) ==
    [k \in 0 .. num * num - 1 |->
        RNeg(RMul(grid.y[k \div num], m.shear_stress_x[k]))]

\* X[mask] * shear_stress_y[mask] - Y[mask] * shear_stress_x[mask]
MomentTerms(grid, m, num) ==
    [k \in 0 .. num * num - 1 |->
        RSub(RMul(grid.x[k % num], m.shear_stress_y[k]),
             RMul(grid.y[k \div num], m.shear_stress_x[k]))]

\* adhesion_points / total_points if total_points > 0 else 0.0
AdhesionArea(adhesion_points, total_points) ==
    IF total_points > 0 THEN Frac(adhesion_points, total_points) ELSE Zero

\* The dictionary solve_tangential_problem returns for the arrays m the loops
\* left.  `locals' is not in the dictionary: it holds the local variables of
\* the call at its return, for the properties to refer to.
TangentialSolution(self, grid, traction_bound, dx, dA, m) ==
    [tangential_forces |->
         <<RMul(SumMasked(m.shear_stress_x, grid.mask, self.discretization,
                          self.discretization * self.discretization), dA),
           RMul(SumMasked(m.shear_stress_y, grid.mask, self.discretization,
                          self.discretization * self.discretization), dA)>>,
     moment |-> RMul(SumMasked(MomentTerms(grid, m, self.discretization), grid.mask,
                               self.discretization,
                               self.discretization * self.discretization), dA),
     shear_stresses |->
         <<Masked(m.shear_stress_x, grid.mask, self.discretization,
                  self.discretization * self.discretization),
           Masked(m.shear_stress_y, grid.mask, self.discretization,
                  self.discretization * self.discretization)>>,
     slip |->
         <<Masked(m.slip_x, grid.mask, self.discretization,
                  self.discretization * self.discretization),
           Masked(m.slip_y, grid.mask, self.discretization,
                  self.discretization * self.discretization)>>,
     adhesion_area |->
         AdhesionArea(m.adhesion_points,
                      CountMasked(grid.mask, self.discretization,
                                  self.discretization * self.discretization)),
     locals |-> [mask |-> grid.mask, x |-> grid.x, y |-> grid.y,
                 traction_bound |-> traction_bound, dx |-> dx, dA |-> dA,
                 shear_stress_x |-> m.shear_stress_x, shear_stress_y |-> m.shear_stress_y,
                 slip_x |-> m.slip_x, slip_y |-> m.slip_y,
                 adhesion_points |-> m.adhesion_points,
                 total_points |-> CountMasked(grid.mask, self.discretization,
                                      self.discretization * self.discretization),
                 visited |-> m.visited, adhering |-> m.adhering]]

FastSim_solve_with_bound(self, creepages, L, grid, traction_bound, dx) ==
    TangentialSolution(self, grid, traction_bound, dx, RMul(dx, dx),
        March(self, grid, grid.mask, grid.y, traction_bound, creepages, L, dx,
              InitialFields(self.discretization)))

FastSim_solve_on_grid(self, contact_patch, creepages, grid) ==
    FastSim_solve_with_bound(self, creepages,
        calculate_flexibility_coefficients(self, contact_patch.a, contact_patch.b),
        grid,
        TractionBound(self, grid.mask, contact_patch.pressure_distribution),
        GridStep(self, contact_patch.a))

\* as FastSim_solve_tangential_problem, but with the pressure of the patch
\* taken in proportion to normal_force
FastSim_solve_for_force(self, contact_patch, creepages, normal_force) ==
    FastSim_solve_on_grid(self,
        [contact_patch EXCEPT !.pressure_distribution =
            [k \in DOMAIN @ |-> RMul(@[k], normal_force)]],
        creepages,
        discretize_contact_patch(contact_patch.a, contact_patch.b, self.discretization))

\* FastSim.solve_tangential_problem; normal_force is not read
FastSim_solve_tangential_problem(self, contact_patch, creepages, normal_force) ==
    FastSim_solve_on_grid(self, contact_patch, creepages,
        discretize_contact_patch(contact_patch.a, contact_patch.b, self.discretization))


\* as StripMask, but with the strips closed at both edges
StripMask_closed(grid, num, y_min, y_max) ==
    [j \in 0 .. num - 1 |->
        [i \in 0 .. num - 1 |->
            grid.mask[j][i] /\ RGe(grid.y[j], y_min) /\ RLe(grid.y[j], y_max)]]

\* strip_mask = mask & (Y >= y_min) & (Y < y_max)
StripMask(grid, num, y_min, y_max) ==
    [j \in 0 .. num - 1 |->
        [i \in 0 .. num - 1 |->
            grid.mask[j][i] /\ RGe(grid.y[j], y_min) /\ RLt(grid.y[j], y_max)]]

\* np.any(strip_mask)
AnyMasked(mask, num) == \E j \in 0 .. num - 1 : \E i \in 0 .. num - 1 : mask[j][i]

\* as ProcessStrip, but with the spin taken at each row's own ordinate
ProcessStrip_at_own_ordinate(self, grid, strip_mask, y_center, traction_bound, creepages, L, dx, m) ==
    IF ~AnyMasked(strip_mask, self.discretization) THEN m
    ELSE March(self, grid, strip_mask, grid.y, traction_bound, creepages, L, dx,
               [m EXCEPT !.step = 0])

\* the body of the loop over the strips: an empty strip is skipped, the points
\* of another are marched through with the spin taken at the strip's centre
ProcessStrip(self, grid, strip_mask, y_center, traction_bound, creepages, L, dx, m) ==
    IF ~AnyMasked(strip_mask, self.discretization) THEN m
    ELSE March(self, grid, strip_mask, [j \in 0 .. self.discretization - 1 |-> y_center],
               traction_bound, creepages, L, dx, [m EXCEPT !.step = 0])

\* for k in range(self.num_strips)
RECURSIVE StripLoop(_, _, _, _, _, _, _, _, _, _)
StripLoop(self, contact_patch, grid, traction_bound, creepages, strip_width, strip_edges, dx, m, k) ==
    IF k >= self.num_strips THEN m
    ELSE StripLoop(self, contact_patch, grid, traction_bound, creepages, strip_width,
                   strip_edges, dx,
                   ProcessStrip(self, grid,
                       StripMask(grid, self.discretization, strip_edges[k], strip_edges[k + 1]),
                       RDiv(RAdd(strip_edges[k], strip_edges[k + 1]), Num(2)),
                       traction_bound, creepages,
                       calculate_strip_flexibility_coefficients(self, contact_patch.a,
                           contact_patch.b, strip_width),
                       dx, m),
                   k + 1)

\* Units of the tangential solvers.  Lengths are in metres.  Creepages,
\* spin and slip are in units of 1e-5 and stresses, pressures and forces in
\* units of 1e-8 (Pa, N), so that the two thresholds of the correction, which
\* the code states in absolute terms, and values on both sides of them fit the
\* model checker's integers.  The shear modulus is in units of 1e-8 Pa per
\* 1e5 units of creepage, i.e. of 1e-3 Pa.  The equations are the code's: they
\* are homogeneous in these units.

\* the force threshold 1e-10 of the correction
ForceThreshold == Frac(1, 100)

\* the creepage 1e-4 below which the linear theory is taken to hold
CreepageThreshold == Num(10)

\* as Clip, but without the limits
Clip_unlimited(x, lo, hi) == x

\* np.clip(x, lo, hi)
Clip(x, lo, hi) == IF RLt(x, lo) THEN lo ELSE IF RGt(x, hi) THEN hi ELSE x

\* as CorrectionFactor, but comparing F, not abs(F), with the threshold
CorrectionFactor_signed(F_linear, F) ==
    Clip(IF RGt(F, ForceThreshold) THEN RDiv(F_linear, F) ELSE One,
         Frac(4, 5), Frac(6, 5))

\* F_linear / F if abs(F) > 1e-10 else 1.0, clipped to [0.8, 1.2]
CorrectionFactor(F_linear, F) ==
    Clip(IF RGt(RAbs(F), ForceThreshold) THEN RDiv(F_linear, F) ELSE One,
         Frac(4, 5), Frac(6, 5))

\* -shear_modulus * a * b * creepage / L
LinearForce(self, a, b, creepage, L) ==
    RDiv(RMul(RMul(RMul(RNeg(self.shear_modulus), a), b), creepage), L)

\* Fx *= correction_x, Fy *= correction_y where both creepages are low; the
\* forces before the correction and the factors join the locals
ApplyCorrection(solution, is_low, correction_x, correction_y) ==
    [solution EXCEPT
        !.tangential_forces =
            IF is_low THEN <<RMul(@[1], correction_x), RMul(@[2], correction_y)>> ELSE @,
        !.locals = @ @@ [uncorrected_forces |-> solution.tangential_forces,
                         corrected |-> is_low,
                         correction_x |-> correction_x,
                         correction_y |-> correction_y]]

\* as FaStrip_correct, but with creepages at the threshold corrected too
FaStrip_correct_inclusive(self, contact_patch, creepages, L_full, solution) ==
    ApplyCorrection(solution,
        /\ RLe(RAbs(creepages.longitudinal), CreepageThreshold)
        /\ RLe(RAbs(creepages.lateral), CreepageThreshold),
        CorrectionFactor(LinearForce(self, contact_patch.a, contact_patch.b,
                                     creepages.longitudinal, L_full.L1),
                         solution.tangential_forces[1]),
        CorrectionFactor(LinearForce(self, contact_patch.a, contact_patch.b,
                                     creepages.lateral, L_full.L2),
                         solution.tangential_forces[2]))

\* the correction by Kalker's linear theory for the whole patch
FaStrip_correct(self, contact_patch, creepages, L_full, solution) ==
    ApplyCorrection(solution,
        /\ RLt(RAbs(creepages.longitudinal), CreepageThreshold)
        /\ RLt(RAbs(creepages.lateral), CreepageThreshold),
        CorrectionFactor(LinearForce(self, contact_patch.a, contact_patch.b,
                                     creepages.longitudinal, L_full.L1),
                         solution.tangential_forces[1]),
        CorrectionFactor(LinearForce(self, contact_patch.a, contact_patch.b,
                                     creepages.lateral, L_full.L2),
                         solution.tangential_forces[2]))

FaStrip_solve_with_bound(self, contact_patch, creepages, grid, traction_bound, dx) ==
    FaStrip_correct(self, contact_patch, creepages,
        calculate_flexibility_coefficients(self, contact_patch.a, contact_patch.b),
        TangentialSolution(self, grid, traction_bound, dx, RMul(dx, dx),
            StripLoop(self, contact_patch, grid, traction_bound, creepages,
                      RDiv(RMul(Num(2), contact_patch.b), Num(self.num_strips)),
                      linspace(RNeg(contact_patch.b), contact_patch.b, self.num_strips + 1),
                      dx, InitialFields(self.discretization), 0)))

FaStrip_solve_on_grid(self, contact_patch, creepages, grid) ==
    FaStrip_solve_with_bound(self, contact_patch, creepages, grid,
        TractionBound(self, grid.mask, contact_patch.pressure_distribution),
        GridStep(self, contact_patch.a))

\* FaStrip.solve_tangential_problem; normal_force is not read
FaStrip_solve_tangential_problem(self, contact_patch, creepages, normal_force) ==
    FaStrip_solve_on_grid(self, contact_patch, creepages,
        discretize_contact_patch(contact_patch.a, contact_patch.b, self.discretization))

solve_tangential_problem(self, contact_patch, creepages, normal_force) ==
    IF self.variant = "FaStrip"
    THEN FaStrip_solve_tangential_problem(self, contact_patch, creepages, normal_force)
    ELSE FastSim_solve_tangential_problem(self, contact_patch, creepages, normal_force)

(***************************************************************************)
(* The solver instances and the inputs the calls are made with             *)
(***************************************************************************)
\* (wheel_radius, rail_radius): k_long / k_lat = rail_radius / wheel_radius is
\* 1, 1/4, 4, 1/36 and 36, so b/a is 1, 1/2, 2, 1/6 and 6
RadiiPairs == {<<Num(2), Num(2)>>, <<Num(2), Frac(1, 2)>>,
               <<Frac(1, 2), Num(2)>>, <<Num(2), Frac(1, 18)>>,
               <<Frac(1, 18), Num(2)>>}

\* Young's moduli 182 GPa in units of 100 GPa and Poisson ratios 0.3 (the
\* default), which make the equivalent modulus E* = E / (2 (1 - nu^2)) one unit
Solver(variant, radii, discretization, semi_axes_ratio_limit) ==
    [variant |-> variant, wheel_radius |-> radii[1], rail_radius |-> radii[2],
     wheel_youngs_modulus |-> Frac(91, 50), rail_youngs_modulus |-> Frac(91, 50),
     wheel_poisson_ratio |-> Frac(3, 10), rail_poisson_ratio |-> Frac(3, 10),
     discretization |-> discretization,
     semi_axes_ratio_limit |-> semi_axes_ratio_limit]

\* the instances: KikPiotrowski (which has no ratio limit; the field is unused)
\* and ModifiedKikPiotrowski with the default limit 5.0 and with 2.0, a limit
\* that b/a = 2 reaches exactly; grids of 2 x 2 and 3 x 3 points
NormalSolvers ==
    {Solver("KP", <<Num(2), Num(2)>>, 3, Num(5)),
     Solver("KP", <<Num(2), Frac(1, 2)>>, 2, Num(5)),
     Solver("KP", <<Frac(1, 2), Num(2)>>, 3, Num(5)),
     Solver("MKP", <<Num(2), Num(2)>>, 3, Num(5)),
     Solver("MKP", <<Num(2), Frac(1, 2)>>, 3, Num(2)),
     Solver("MKP", <<Frac(1, 2), Num(2)>>, 2, Num(5)),
     Solver("MKP", <<Num(2), Frac(1, 18)>>, 3, Num(5)),
     Solver("MKP", <<Frac(1, 18), Num(2)>>, 3, Num(2)),
     Solver("MKP", <<Num(2), Frac(2, 25)>>, 3, Frac(6, 5)),
     Solver("MKP", <<Frac(2, 25), Num(2)>>, 2, Frac(6, 5))}

\* the semi-axes a the forces and penetrations below produce at zero yaw
SemiAxes == {Frac(1, 2), Num(2)}

\* the stiffness 4 E* (k_long + k_lat) / 3 of a solver at zero yaw
Stiffness(self) ==
    RDiv(RMul(RMul(Num(4), equivalent_youngs_modulus(self)),
              CurvatureSum(calculate_curvatures(self.wheel_radius, self.rail_radius, "0"))),
         Num(3))

\* normal forces whose semi-axis a is rational, F = (4 E* k / 3) a^3
ExactForces(self) == {RMul(Stiffness(self), RMul(a, RSq(a))) : a \in SemiAxes}

\* penetrations whose semi-axis a is rational, d = a^2 k / 3
ExactPenetrations(self) ==
    {RDiv(RMul(RSq(a),
               CurvatureSum(calculate_curvatures(self.wheel_radius, self.rail_radius, "0"))),
          Num(3)) : a \in SemiAxes}

\* a force whose semi-axis a is irrational
OtherForces == {Num(3)}

OptionalOf(S) == {None} \cup {Some(v) : v \in S}

\* what scipy.optimize.minimize reports for a start value x0: it converges
\* to x0 itself, converges elsewhere, or gives up
MinimizerOutcomes == {[success |-> TRUE, scale |-> One],
                      [success |-> TRUE, scale |-> Frac(1, 8)],
                      [success |-> FALSE, scale |-> Frac(1, 8)]}

MinimizerResult(self, penetration, outcome) ==
    [success |-> outcome.success,
     x |-> RMul(outcome.scale, MKP_initial_force(self, penetration, "0"))]

\* the arguments of the calls made on a solver; the minimizer only runs in
\* ModifiedKikPiotrowski.calculate_normal_force
NormalArgs(self) ==
    {r \in [penetration : OptionalOf(ExactPenetrations(self)),
            normal_force : OptionalOf(ExactForces(self) \cup OtherForces),
            yaw_angle : YawAngles,
            minimizer : MinimizerOutcomes] :
        (self.variant = "KP" \/ r.penetration = None)
            => r.minimizer = [success |-> TRUE, scale |-> One]}

\* the classes solve_contact_problem is called on: the solver itself and the
\* wrappers KPFastSim, KPFastSimUSFD (a KikPiotrowski inside) and MKPFaStrip
\* (a ModifiedKikPiotrowski inside)
Callers(self) == IF self.variant = "MKP" THEN {"ModifiedKikPiotrowski", "MKPFaStrip"}
                 ELSE {"KikPiotrowski", "KPFastSim", "KPFastSimUSFD"}

\* the tangential solver instances: FastSim and FaStrip with the default
\* Poisson ratio and friction coefficient 0.3 and a shear modulus of 4e-4 Pa
TangentialSolver(variant, discretization, num_strips) ==
    IF variant = "FaStrip"
    THEN [variant |-> variant, poisson_ratio |-> Frac(3, 10),
          shear_modulus |-> Frac(2, 5), friction_coefficient |-> Frac(3, 10),
          discretization |-> discretization, num_strips |-> num_strips]
    ELSE [variant |-> variant, poisson_ratio |-> Frac(3, 10),
          shear_modulus |-> Frac(2, 5), friction_coefficient |-> Frac(3, 10),
          discretization |-> discretization]

\* grids of 1 x 1 and 2 x 2 points have no point inside the ellipse, the 3 x 3
\* grid has its centre and four points on the ellipse, the 4 x 4 grid four
\* points strictly inside
TangentialSolvers ==
    {TangentialSolver("FastSim", num, 0) : num \in 1 .. 4}
      \cup {TangentialSolver("FaStrip", num, num_strips) :
               num \in {1, 3, 4}, num_strips \in 1 .. 3}

\* the keys of a contact patch that solve_tangential_problem reads; the
\* pressure is the semi-ellipsoid of KikPiotrowski over the solver's grid
TangentialPatch(a, b, max_pressure, num) ==
    [a |-> a, b |-> b,
     pressure_distribution |-> KP_pressure_distribution(max_pressure, a, b, num)]

\* the pressure at the four inner points of the 4 x 4 grid is 9/10 of the
\* maximal pressure
InnerShape(num) == IF num = 4 THEN Frac(9, 10) ELSE One

\* patches whose pressure at the innermost grid points is 1 and 10 units, so
\* that the traction bound there is 3/10 and 3
ContactPatches(self) ==
    {TangentialPatch(axes[1], axes[2], RDiv(pressure, InnerShape(self.discretization)),
                     self.discretization) :
        axes \in {<<Frac(1, 2), Frac(1, 2)>>, <<Frac(3, 8), Frac(1, 2)>>},
        pressure \in {One, Num(10)}}

Creepage(longitudinal, lateral, spin) ==
    [longitudinal |-> longitudinal, lateral |-> lateral, spin |-> spin]

\* creepage vectors along one axis: none, below, at and above the threshold
\* 1e-4 of the correction, and 3e-7, whose forces are below the force threshold
AxialCreepages ==
    {Creepage(Zero, Zero, Zero),
     Creepage(Num(3), Zero, Zero), Creepage(Num(-3), Zero, Zero),
     Creepage(Frac(3, 100), Zero, Zero), Creepage(Frac(-3, 100), Zero, Zero),
     Creepage(Num(10), Zero, Zero), Creepage(Num(-10), Zero, Zero),
     Creepage(Num(60), Zero, Zero), Creepage(Num(-60), Zero, Zero),
     Creepage(Zero, Num(3), Zero), Creepage(Zero, Num(-60), Zero)}

\* creepage vectors with two components or spin, and a small lateral one
PlanarCreepages ==
    {Creepage(Zero, Frac(-3, 100), Zero),
     Creepage(Num(3), Num(4), Zero),
     Creepage(Num(3), Num(-400), Zero),
     Creepage(Num(-30), Num(40), Num(9)),
     Creepage(Zero, Zero, Num(9)),
     Creepage(Num(3), Zero, Num(-9))}

\* On the 4 x 4 grid a second point of a row follows a first with a non-zero
\* traction bound, and the squares of a stress with two components (and the
\* moment of a small lateral stress) leave the model checker's integers: that
\* grid is solved for the axial vectors.
Creepages(self) ==
    IF self.discretization <= 3 THEN AxialCreepages \cup PlanarCreepages
    ELSE AxialCreepages

TangentialArgs(self) ==
    [contact_patch : ContactPatches(self), creepages : Creepages(self),
     normal_force : {One}]

VARIABLES
    nsolver,    \* the normal solver instance: its attributes
    nargs,      \* the arguments its methods are called with
    ncall,      \* the last call made on it: operation, arguments, outcome
    nprev,      \* the call before, when the last call was given its result
    tsolver,    \* the tangential solver instance: its attributes
    targs,      \* the arguments solve_tangential_problem is called with
    tcall,      \* the call made on it: arguments and outcome
    session,    \* a sequence of calls on the same instances: its record
    wear,       \* the wear model: its coefficients, arguments and last call
    simulator,  \* the UICProfileSimulator: its registries and last call
    march,      \* the march of a tangential solver, its rows taken in any order
    wrapper     \* an integration wrapper: its class, arguments and last call

nvars == <<nsolver, nargs, ncall, nprev>>

tvars == <<tsolver, targs, tcall>>

\* the variables of the other parts of the program
xvars == <<session, wear, simulator, march, wrapper>>

vars == <<nsolver, nargs, ncall, nprev, tsolver, targs, tcall, session, wear, simulator,
          march, wrapper>>

NoCall == [op |-> "none"]

\* no instance of the class, no arguments
Idle == [variant |-> "none"]

\* the other parts of the program are not in use
ExtrasIdle ==
    session = Idle /\ wear = Idle /\ simulator = Idle /\ march = Idle /\ wrapper = Idle

NormalInit ==
    /\ nsolver \in NormalSolvers
    /\ nargs \in NormalArgs(nsolver)
    /\ ncall = NoCall
    /\ nprev = NoCall
    /\ tsolver = Idle /\ targs = Idle /\ tcall = NoCall
    /\ ExtrasIdle

\* The solvers keep no state between calls, so a behaviour makes one call on
\* its arguments; calculate_penetration and calculate_normal_force may then be
\* given each other's result.
CallCalculateContactPatch ==
    /\ ncall = NoCall
    /\ nargs.normal_force # None
    /\ ncall' = [op |-> "calculate_contact_patch",
                 normal_force |-> nargs.normal_force[1], yaw_angle |-> nargs.yaw_angle,
                 result |-> calculate_contact_patch(nsolver, nargs.normal_force[1],
                                                    nargs.yaw_angle)]
    /\ UNCHANGED <<nsolver, nargs, nprev, tvars, xvars>>

\* the argument of a call of op: the one of nargs or the result of the call
\* of the inverse operation just made
Chained(inverse) == ncall.op = inverse /\ nprev = NoCall

CallCalculatePenetration ==
    /\ \/ ncall = NoCall /\ nargs.normal_force # None
       \/ Chained("calculate_normal_force")
    /\ LET normal_force == IF ncall = NoCall THEN nargs.normal_force[1] ELSE ncall.result
       IN  ncall' = [op |-> "calculate_penetration", arg |-> normal_force,
                     result |-> calculate_penetration(nsolver, normal_force)]
    /\ nprev' = ncall
    /\ UNCHANGED <<nsolver, nargs, tvars, xvars>>

CallCalculateNormalForce ==
    /\ \/ ncall = NoCall /\ nargs.penetration # None
       \/ Chained("calculate_penetration")
    /\ LET penetration == IF ncall = NoCall THEN nargs.penetration[1] ELSE ncall.result
       IN  ncall' = [op |-> "calculate_normal_force", arg |-> penetration,
                     result |-> calculate_normal_force(nsolver, penetration,
                                    MinimizerResult(nsolver, penetration, nargs.minimizer))]
    /\ nprev' = ncall
    /\ UNCHANGED <<nsolver, nargs, tvars, xvars>>

CallSolveContactProblem ==
    /\ ncall = NoCall
    /\ \E caller \in Callers(nsolver) :
          ncall' = [op |-> "solve_contact_problem", caller |-> caller,
                    penetration |-> nargs.penetration,
                    normal_force |-> nargs.normal_force,
                    yaw_angle |-> nargs.yaw_angle,
                    result |-> Class_solve_contact_problem(caller, nsolver,
                                   nargs.penetration, nargs.normal_force, nargs.yaw_angle,
                                   IF nargs.penetration = None
                                   THEN [success |-> TRUE, x |-> Zero]
                                   ELSE MinimizerResult(nsolver, nargs.penetration[1],
                                                        nargs.minimizer))]
    /\ UNCHANGED <<nsolver, nargs, nprev, tvars, xvars>>

NormalNext ==
    \/ CallCalculateContactPatch
    \/ CallCalculatePenetration
    \/ CallCalculateNormalForce
    \/ CallSolveContactProblem

SpecNormal == NormalInit /\ [][NormalNext]_vars

TangentialInit ==
    /\ tsolver \in TangentialSolvers
    /\ targs \in TangentialArgs(tsolver)
    /\ tcall = NoCall
    /\ nsolver = Idle /\ nargs = Idle /\ ncall = NoCall /\ nprev = NoCall
    /\ ExtrasIdle

\* The tangential solvers keep no state between calls either: a behaviour
\* makes one call of solve_tangential_problem on its arguments.
CallFastSimSolveTangentialProblem ==
    /\ tcall = NoCall
    /\ tsolver.variant = "FastSim"
    /\ tcall' = [op |-> "solve_tangential_problem",
                 contact_patch |-> targs.contact_patch,
                 creepages |-> targs.creepages,
                 normal_force |-> targs.normal_force,
                 result |-> FastSim_solve_tangential_problem(tsolver, targs.contact_patch,
                                targs.creepages, targs.normal_force)]
    /\ UNCHANGED <<nvars, tsolver, targs, xvars>>

CallFaStripSolveTangentialProblem ==
    /\ tcall = NoCall
    /\ tsolver.variant = "FaStrip"
    /\ tcall' = [op |-> "solve_tangential_problem",
                 contact_patch |-> targs.contact_patch,
                 creepages |-> targs.creepages,
                 normal_force |-> targs.normal_force,
                 result |-> FaStrip_solve_tangential_problem(tsolver, targs.contact_patch,
                                targs.creepages, targs.normal_force)]
    /\ UNCHANGED <<nvars, tsolver, targs, xvars>>

TangentialNext ==
    \/ CallFastSimSolveTangentialProblem
    \/ CallFaStripSolveTangentialProblem

SpecTangential == TangentialInit /\ [][TangentialNext]_vars

(***************************************************************************)
(* A session: calls in any order on one normal and one tangential solver   *)
(***************************************************************************)
\* the methods of the solvers
Ops == {"calculate_contact_patch", "calculate_penetration", "calculate_normal_force",
        "solve_contact_problem", "solve_tangential_problem"}

\* the length of the sessions
MaxCalls == 3

\* as SelfAfterCall, but the call leaves a grid of 2 x 2 points in the instance
SelfAfterCall_coarser(self) == [self EXCEPT !.discretization = 2]

\* the attributes of a solver after a call of one of its methods: the
\* attributes are assigned in __init__ and by no method
SelfAfterCall(self) == self

\* the caller's arguments (contact_patch, creepages and the numbers) after a
\* call: the methods copy what they change (np.zeros_like, local arrays)
ArgumentsAfterCall(args) == args

SessionNormalSolvers ==
    {Solver("KP", <<Num(2), Num(2)>>, 3, Num(5)),
     Solver("MKP", <<Num(2), Frac(1, 18)>>, 3, Num(5))}

\* a penetration and a force, for the methods that take the one or the other
SessionNormalArgs(self) ==
    {r \in NormalArgs(self) :
        r.penetration # None /\ r.normal_force = Some(Num(3)) /\ r.yaw_angle = "0"}

SessionTangentialSolvers ==
    {TangentialSolver("FastSim", 3, 0), TangentialSolver("FaStrip", 3, 2)}

SessionTangentialArgs(self) ==
    {r \in TangentialArgs(self) :
        /\ r.contact_patch.a = Frac(3, 8)
        /\ r.creepages = Creepage(Num(-30), Num(40), Num(9))}

\* the record of a session after a call of op: the number of calls, and the
\* result of the first call of each method
Recorded(s, op, result) ==
    [s EXCEPT !.calls = @ + 1,
              !.first[op] = IF @ = None THEN Some(result) ELSE @]

SessionInit ==
    /\ nsolver \in SessionNormalSolvers
    /\ nargs \in SessionNormalArgs(nsolver)
    /\ tsolver \in SessionTangentialSolvers
    /\ targs \in SessionTangentialArgs(tsolver)
    /\ ncall = NoCall /\ nprev = NoCall /\ tcall = NoCall
    /\ session = [calls |-> 0, first |-> [op \in Ops |-> None],
                  constructed |-> <<nsolver, tsolver>>, passed |-> <<nargs, targs>>]
    /\ wear = Idle /\ simulator = Idle /\ march = Idle /\ wrapper = Idle

\* the instances and the arguments after a call on the normal solver
NormalCallMade ==
    /\ nsolver' = SelfAfterCall(nsolver)
    /\ nargs' = ArgumentsAfterCall(nargs)
    /\ UNCHANGED <<nprev, tvars, wear, simulator, march, wrapper>>

SessionCalculateContactPatch ==
    /\ session # Idle /\ session.calls < MaxCalls
    /\ ncall' = [op |-> "calculate_contact_patch",
                 result |-> calculate_contact_patch(nsolver, nargs.normal_force[1],
                                                    nargs.yaw_angle)]
    /\ session' = Recorded(session, "calculate_contact_patch", ncall'.result)
    /\ NormalCallMade

SessionCalculatePenetration ==
    /\ session # Idle /\ session.calls < MaxCalls
    /\ ncall' = [op |-> "calculate_penetration",
                 result |-> calculate_penetration(nsolver, nargs.normal_force[1])]
    /\ session' = Recorded(session, "calculate_penetration", ncall'.result)
    /\ NormalCallMade

SessionCalculateNormalForce ==
    /\ session # Idle /\ session.calls < MaxCalls
    /\ ncall' = [op |-> "calculate_normal_force",
                 result |-> calculate_normal_force(nsolver, nargs.penetration[1],
                                MinimizerResult(nsolver, nargs.penetration[1],
                                                nargs.minimizer))]
    /\ session' = Recorded(session, "calculate_normal_force", ncall'.result)
    /\ NormalCallMade

SessionSolveContactProblem ==
    /\ session # Idle /\ session.calls < MaxCalls
    /\ ncall' = [op |-> "solve_contact_problem",
                 result |-> solve_contact_problem(nsolver, None, nargs.normal_force,
                                nargs.yaw_angle, [success |-> TRUE, x |-> Zero])]
    /\ session' = Recorded(session, "solve_contact_problem", ncall'.result)
    /\ NormalCallMade

SessionSolveTangentialProblem ==
    /\ session # Idle /\ session.calls < MaxCalls
    /\ tcall' = [op |-> "solve_tangential_problem",
                 result |-> solve_tangential_problem(tsolver, targs.contact_patch,
                                targs.creepages, targs.normal_force)]
    /\ session' = Recorded(session, "solve_tangential_problem", tcall'.result)
    /\ tsolver' = SelfAfterCall(tsolver)
    /\ targs' = ArgumentsAfterCall(targs)
    /\ UNCHANGED <<nvars, wear, simulator, march, wrapper>>

SessionNext ==
    \/ SessionCalculateContactPatch
    \/ SessionCalculatePenetration
    \/ SessionCalculateNormalForce
    \/ SessionSolveContactProblem
    \/ SessionSolveTangentialProblem

SpecSession == SessionInit /\ [][SessionNext]_vars

(***************************************************************************)
(* usfd.py: the wear model                                                 *)
(***************************************************************************)
\* USFDWearModel.__init__: the coefficients of R8T on UIC60 900A, which are
\* also the coefficients of every other pair of materials
USFDWearModel(wheel_material, rail_material) ==
    [wheel_material |-> wheel_material, rail_material |-> rail_material,
     K1 |-> Frac(53, 10), T1 |-> Frac(52, 5),
     K2 |-> Num(55), T2 |-> Frac(386, 5),
     K3 |-> Frac(619, 10), C3 |-> Frac(47787, 10)]

\* calculate_wear_rate for a scalar tgamma (a float): the entry of the array
\* of zeros that the three masks assign to
calculate_wear_rate(self, tgamma) ==
    IF RLt(tgamma, self.T1) THEN RMul(self.K1, tgamma)
    ELSE IF RGe(tgamma, self.T1) /\ RLe(tgamma, self.T2) THEN self.K2
    ELSE IF RGt(tgamma, self.T2) THEN RSub(RMul(self.K3, tgamma), self.C3)
    ELSE Zero

\* The factor 1e-9 (kg per microgram) of the code is 1 here: wear depths and
\* volumes are in units of 1e9 mm and 1e9 mm^3.
KgPerMicrogram == One

\* volumetric_wear_rate = wear_rate / (density * 1e-9)
VolumetricWearRate(wear_rate, density) == RDiv(wear_rate, RMul(density, KgPerMicrogram))

calculate_wear_depth(self, tgamma, sliding_distance, density) ==
    RDiv(RMul(VolumetricWearRate(calculate_wear_rate(self, tgamma), density),
              sliding_distance),
         Num(1000))

\* calculate_wear_volume for a scalar tgamma
calculate_wear_volume(self, tgamma, sliding_distance, contact_area, density) ==
    RDiv(RMul(RMul(VolumetricWearRate(calculate_wear_rate(self, tgamma), density),
                   sliding_distance),
              contact_area),
         Num(1000))

WearModels == {USFDWearModel("R8T", "UIC60 900A"), USFDWearModel("ER7", "UIC60 900A")}

\* friction power densities in the three regimes, at the thresholds T1 = 10.4
\* and T2 = 77.2 and just above T2
FrictionPowers ==
    {Zero, Frac(1, 10), Num(5), Frac(52, 5), Num(50), Frac(386, 5),
     Frac(386001, 5000), Frac(7721, 100), Num(78), Num(100), Num(1000)}

WearArgs ==
    [tgamma : FrictionPowers, sliding_distance : {Num(1000), Num(2000)},
     contact_area : {Frac(1, 2), Num(100)}, density : {Num(7850)}]

WearInit ==
    /\ wear \in [model : WearModels, args : WearArgs, call : {NoCall}]
    /\ nsolver = Idle /\ nargs = Idle /\ ncall = NoCall /\ nprev = NoCall
    /\ tsolver = Idle /\ targs = Idle /\ tcall = NoCall
    /\ session = Idle /\ simulator = Idle /\ march = Idle /\ wrapper = Idle

\* The wear model keeps no state between calls: a behaviour makes one call.
CallCalculateWearRate ==
    /\ wear # Idle /\ wear.call = NoCall
    /\ wear' = [wear EXCEPT !.call =
                   [op |-> "calculate_wear_rate",
                    result |-> calculate_wear_rate(wear.model, wear.args.tgamma)]]
    /\ UNCHANGED <<nvars, tvars, session, simulator, march, wrapper>>

CallCalculateWearDepth ==
    /\ wear # Idle /\ wear.call = NoCall
    /\ wear' = [wear EXCEPT !.call =
                   [op |-> "calculate_wear_depth",
                    result |-> calculate_wear_depth(wear.model, wear.args.tgamma,
                                   wear.args.sliding_distance, wear.args.density)]]
    /\ UNCHANGED <<nvars, tvars, session, simulator, march, wrapper>>

CallCalculateWearVolume ==
    /\ wear # Idle /\ wear.call = NoCall
    /\ wear' = [wear EXCEPT !.call =
                   [op |-> "calculate_wear_volume",
                    result |-> calculate_wear_volume(wear.model, wear.args.tgamma,
                                   wear.args.sliding_distance, wear.args.contact_area,
                                   wear.args.density)]]
    /\ UNCHANGED <<nvars, tvars, session, simulator, march, wrapper>>

WearNext ==
    \/ CallCalculateWearRate
    \/ CallCalculateWearDepth
    \/ CallCalculateWearVolume

SpecWear == WearInit /\ [][WearNext]_vars

(***************************************************************************)
(* uic_simulator.py: the registry of models of UICProfileSimulator         *)
(***************************************************************************)
\* A string the code builds is a sequence of tokens, so that an f-string is
\* the concatenation of its parts.

\* abs(d) rounded to tenths, ties to even (the decimals used are exact or
\* not ties in binary64)
RoundedTenths(d) ==
    LET q == (Abs(d.n) * 10) \div d.d
        r == (Abs(d.n) * 10) % d.d
    IN  IF 2 * r > d.d THEN q + 1
        ELSE IF 2 * r = d.d THEN q + (q % 2)
        ELSE q

\* f"{d:.1f}"
FormatOneDecimal(d) ==
    (IF d.n < 0 THEN <<"-">> ELSE <<>>)
      \o <<ToString(RoundedTenths(d) \div 10), ".", ToString(RoundedTenths(d) % 10)>>

\* f"{wheel_profile_name}_{rail_profile_name}_{lateral_displacement:.1f}mm"
DefaultModelName(wheel_profile_name, rail_profile_name, lateral_displacement) ==
    wheel_profile_name \o <<"_">> \o rail_profile_name \o <<"_">>
      \o FormatOneDecimal(lateral_displacement) \o <<"mm">>

\* a loaded profile: its type and the lateral displacement up to which the
\* wheel still has a point over the rail
Profile(type) == [type |-> type, reach |-> Num(5)]

\* UICProfileLoader.calculate_contact_geometry, without the geometry itself
calculate_contact_geometry(profiles, wheel_profile_name, rail_profile_name, lateral_displacement) ==
    IF wheel_profile_name \notin DOMAIN profiles \/ rail_profile_name \notin DOMAIN profiles
    THEN [raised |-> "KeyError"]
    ELSE IF profiles[wheel_profile_name].type # "wheel"
              \/ profiles[rail_profile_name].type # "rail"
    THEN [raised |-> "ValueError"]
    ELSE IF RGt(RAbs(lateral_displacement), profiles[wheel_profile_name].reach)
    THEN [raised |-> "ValueError"]
    ELSE [raised |-> "", wheel |-> wheel_profile_name, rail |-> rail_profile_name,
          lateral_displacement |-> lateral_displacement]

\* as StoreModel, but an entry registered under the name is kept
StoreModel_keeping_first(self, model_name, wheel_profile_name, rail_profile_name, lateral_displacement, contact_geometry) ==
    [self EXCEPT
        !.models = @ @@ (model_name :> [model |-> self.created + 1,
                                       wheel_profile_name |-> wheel_profile_name,
                                       rail_profile_name |-> rail_profile_name,
                                       lateral_displacement |-> lateral_displacement,
                                       contact_geometry |-> contact_geometry]),
        !.created = @ + 1,
        !.stored = @ \cup {model_name},
        !.call = [op |-> "create_model", name |-> model_name, raised |-> "",
                  result |-> self.created + 1, before |-> self.models]]

\* the simulator after self.models[model_name] = {...}; `model' is the
\* identity of the KPFastSimUSFD object created, `stored' (not in the code)
\* the names create_model has stored a model under
StoreModel(self, model_name, wheel_profile_name, rail_profile_name, lateral_displacement, contact_geometry) ==
    [self EXCEPT
        !.models = (model_name :> [model |-> self.created + 1,
                                  wheel_profile_name |-> wheel_profile_name,
                                  rail_profile_name |-> rail_profile_name,
                                  lateral_displacement |-> lateral_displacement,
                                  contact_geometry |-> contact_geometry]) @@ @,
        !.created = @ + 1,
        !.stored = @ \cup {model_name},
        !.call = [op |-> "create_model", name |-> model_name, raised |-> "",
                  result |-> self.created + 1, before |-> self.models]]

\* create_model once the name is known: the geometry is computed before
\* anything is stored
CreateNamedModel(self, wheel_profile_name, rail_profile_name, lateral_displacement, model_name, contact_geometry) ==
    IF contact_geometry.raised # ""
    THEN [self EXCEPT !.call = [op |-> "create_model", name |-> model_name,
                                raised |-> contact_geometry.raised,
                                before |-> self.models]]
    ELSE StoreModel(self, model_name, wheel_profile_name, rail_profile_name,
                    lateral_displacement, contact_geometry)

create_model(self, wheel_profile_name, rail_profile_name, lateral_displacement, model_name) ==
    CreateNamedModel(self, wheel_profile_name, rail_profile_name, lateral_displacement,
        IF model_name = None
        THEN DefaultModelName(wheel_profile_name, rail_profile_name, lateral_displacement)
        ELSE model_name[1],
        calculate_contact_geometry(self.profiles, wheel_profile_name, rail_profile_name,
                                   lateral_displacement))

\* get_model: what it raises or returns
get_model(self, model_name) ==
    IF model_name \notin DOMAIN self.models THEN [raised |-> "KeyError"]
    ELSE [raised |-> "", result |-> self.models[model_name].model]

\* simulate_contact_and_wear once the model is looked up: the model's
\* simulate_contact_and_wear raises ValueError unless exactly one of
\* normal_force and penetration is given; the result carries the registered
\* contact geometry
SimulateWithModel(self, model_name, model, normal_force, penetration) ==
    IF model.raised # "" THEN model
    ELSE IF (normal_force = None) = (penetration = None) THEN [raised |-> "ValueError"]
    ELSE [raised |-> "",
          result |-> [model |-> model.result,
                      contact_geometry |-> self.models[model_name].contact_geometry]]

simulate_contact_and_wear(self, model_name, normal_force, penetration) ==
    SimulateWithModel(self, model_name, get_model(self, model_name), normal_force,
                      penetration)

\* load_profiles with both names given: the wheel profile is stored, then
\* the rail profile
load_profiles(self, wheel_name, rail_name) ==
    [self EXCEPT
        !.profiles = (rail_name :> Profile("rail")) @@ (wheel_name :> Profile("wheel")) @@ @,
        !.call = [op |-> "load_profiles", raised |-> "", before |-> self.models]]

\* the number of calls made on a simulator
MaxSimulatorCalls == 3

WheelProfileNames == {<<"S1002">>, <<"ORE">>}

RailProfileNames == {<<"UIC60">>}

\* lateral displacements in mm: 0.04 and -0.04 print as 0.0 and -0.0, 0.75 as
\* 0.8; at 6 mm the wheel has no point over the rail
LateralDisplacements == {Zero, Frac(1, 25), Frac(-1, 25), Frac(3, 4), Num(6)}

\* the names a model is registered and asked for under
ModelNames ==
    {<<"nominal">>}
      \cup {DefaultModelName(<<"S1002">>, <<"UIC60">>, d) : d \in LateralDisplacements}

SimulatorInit ==
    /\ simulator = [profiles |-> <<>>, models |-> <<>>, created |-> 0, stored |-> {},
                    calls |-> 0, call |-> NoCall]
    /\ nsolver = Idle /\ nargs = Idle /\ ncall = NoCall /\ nprev = NoCall
    /\ tsolver = Idle /\ targs = Idle /\ tcall = NoCall
    /\ session = Idle /\ wear = Idle /\ march = Idle /\ wrapper = Idle

\* one more call was made
Counted(self) == [self EXCEPT !.calls = @ + 1]

CallLoadProfiles ==
    /\ simulator # Idle /\ simulator.calls < MaxSimulatorCalls
    /\ simulator' = Counted(load_profiles(simulator, <<"S1002">>, <<"UIC60">>))
    /\ UNCHANGED <<nvars, tvars, session, wear, march, wrapper>>

CallCreateModel ==
    /\ simulator # Idle /\ simulator.calls < MaxSimulatorCalls
    /\ \E w \in WheelProfileNames, r \in RailProfileNames, d \in LateralDisplacements,
          model_name \in {None, Some(<<"nominal">>),
                          Some(DefaultModelName(<<"S1002">>, <<"UIC60">>, Zero))} :
          simulator' = Counted([create_model(simulator, w, r, d, model_name) EXCEPT
                                   !.call = @ @@ [args |-> <<w, r, d, model_name>>]])
    /\ UNCHANGED <<nvars, tvars, session, wear, march, wrapper>>

CallGetModel ==
    /\ simulator # Idle /\ simulator.calls < MaxSimulatorCalls
    /\ \E model_name \in ModelNames :
          simulator' = Counted([simulator EXCEPT !.call =
                           [op |-> "get_model", name |-> model_name,
                            before |-> simulator.models]
                             @@ get_model(simulator, model_name)])
    /\ UNCHANGED <<nvars, tvars, session, wear, march, wrapper>>

CallSimulateContactAndWear ==
    /\ simulator # Idle /\ simulator.calls < MaxSimulatorCalls
    /\ \E model_name \in ModelNames, normal_force \in OptionalOf({One}) :
          simulator' = Counted([simulator EXCEPT !.call =
                           [op |-> "simulate_contact_and_wear", name |-> model_name,
                            before |-> simulator.models]
                             @@ simulate_contact_and_wear(simulator, model_name,
                                                          normal_force, None)])
    /\ UNCHANGED <<nvars, tvars, session, wear, march, wrapper>>

SimulatorNext ==
    \/ CallLoadProfiles
    \/ CallCreateModel
    \/ CallGetModel
    \/ CallSimulateContactAndWear

SpecSimulator == SimulatorInit /\ [][SimulatorNext]_vars

(***************************************************************************)
(* The march of solve_tangential_problem with its rows taken in any order  *)
(***************************************************************************)
\* The body of the two loops is the code's (MarchStep).  The code runs it
\* column by column over all rows; here each row keeps its own column index,
\* starting at the trailing edge, and the next point processed is the next of
\* any row.

\* the strips of FaStrip that hold the ordinate y
StripsHolding(self, strip_edges, y) ==
    {k \in 0 .. self.num_strips - 1 : RGe(y, strip_edges[k]) /\ RLt(y, strip_edges[k + 1])}

\* the points of the strip masks of FaStrip together
MaskOfStrips(self, grid, strip_edges) ==
    [j \in 0 .. self.discretization - 1 |->
        [i \in 0 .. self.discretization - 1 |->
            \E k \in 0 .. self.num_strips - 1 :
                StripMask(grid, self.discretization, strip_edges[k], strip_edges[k + 1])[j][i]]]

\* y_center of the strip of each row (of no use in a row of no strip)
StripCentres(self, grid, strip_edges) ==
    [j \in 0 .. self.discretization - 1 |->
        IF StripsHolding(self, strip_edges, grid.y[j]) = {} THEN grid.y[j]
        ELSE LET k == CHOOSE k \in StripsHolding(self, strip_edges, grid.y[j]) : TRUE
             IN  RDiv(RAdd(strip_edges[k], strip_edges[k + 1]), Num(2))]

\* what the loops of FastSim read, the arrays they write, and the column each
\* row is at
FastSimRows(self, contact_patch, creepages, grid) ==
    [self |-> self, contact_patch |-> contact_patch, creepages |-> creepages,
     grid |-> grid, in_mask |-> grid.mask, y_spin |-> grid.y,
     traction_bound |-> TractionBound(self, grid.mask, contact_patch.pressure_distribution),
     L |-> calculate_flexibility_coefficients(self, contact_patch.a, contact_patch.b),
     dx |-> GridStep(self, contact_patch.a),
     m |-> InitialFields(self.discretization),
     next |-> [j \in 0 .. self.discretization - 1 |-> self.discretization - 1],
     result |-> None]

\* the same for the loops of FaStrip
FaStripRows(self, contact_patch, creepages, grid, strip_edges) ==
    [self |-> self, contact_patch |-> contact_patch, creepages |-> creepages,
     grid |-> grid, in_mask |-> MaskOfStrips(self, grid, strip_edges),
     y_spin |-> StripCentres(self, grid, strip_edges),
     traction_bound |-> TractionBound(self, grid.mask, contact_patch.pressure_distribution),
     L |-> calculate_strip_flexibility_coefficients(self, contact_patch.a, contact_patch.b,
               RDiv(RMul(Num(2), contact_patch.b), Num(self.num_strips))),
     dx |-> GridStep(self, contact_patch.a),
     m |-> InitialFields(self.discretization),
     next |-> [j \in 0 .. self.discretization - 1 |-> self.discretization - 1],
     result |-> None]

RowsOf(self, contact_patch, creepages) ==
    IF self.variant = "FaStrip"
    THEN FaStripRows(self, contact_patch, creepages,
             discretize_contact_patch(contact_patch.a, contact_patch.b, self.discretization),
             linspace(RNeg(contact_patch.b), contact_patch.b, self.num_strips + 1))
    ELSE FastSimRows(self, contact_patch, creepages,
             discretize_contact_patch(contact_patch.a, contact_patch.b, self.discretization))

\* the body of the loops at the next point of row j
ProcessNextOfRow(r, j) ==
    [r EXCEPT
        !.m = MarchStep(r.self, r.grid, r.in_mask, r.y_spin, r.traction_bound, r.creepages,
                        r.L, r.dx, @, j, r.next[j]),
        !.next[j] = @ - 1]

\* the statements after the loops
SolutionOfRows(r) ==
    IF r.self.variant = "FaStrip"
    THEN FaStrip_correct(r.self, r.contact_patch, r.creepages,
             calculate_flexibility_coefficients(r.self, r.contact_patch.a, r.contact_patch.b),
             TangentialSolution(r.self, r.grid, r.traction_bound, r.dx, RMul(r.dx, r.dx), r.m))
    ELSE TangentialSolution(r.self, r.grid, r.traction_bound, r.dx, RMul(r.dx, r.dx), r.m)

\* solvers on the 3 x 3 grid and on the 4 x 4 grid, where two rows have two
\* points each with a non-zero traction bound
MarchSolvers ==
    {TangentialSolver("FastSim", num, 0) : num \in 3 .. 4}
      \cup {TangentialSolver("FaStrip", 4, num_strips) : num_strips \in 1 .. 2}

\* tsolver and targs are the instance and the arguments, tcall is the call of
\* solve_tangential_problem as the code makes it
MarchInit ==
    /\ tsolver \in MarchSolvers
    /\ targs \in TangentialArgs(tsolver)
    /\ tcall = [op |-> "solve_tangential_problem",
                contact_patch |-> targs.contact_patch,
                creepages |-> targs.creepages,
                normal_force |-> targs.normal_force,
                result |-> solve_tangential_problem(tsolver, targs.contact_patch,
                               targs.creepages, targs.normal_force)]
    /\ march = RowsOf(tsolver, targs.contact_patch, targs.creepages)
    /\ nsolver = Idle /\ nargs = Idle /\ ncall = NoCall /\ nprev = NoCall
    /\ session = Idle /\ wear = Idle /\ simulator = Idle /\ wrapper = Idle

MarchRow ==
    /\ march # Idle
    /\ \E j \in 0 .. tsolver.discretization - 1 :
          /\ march.next[j] >= 0
          /\ march' = ProcessNextOfRow(march, j)
    /\ UNCHANGED <<nvars, tvars, session, wear, simulator, wrapper>>

ReturnSolution ==
    /\ march # Idle
    /\ march.result = None
    /\ \A j \in 0 .. tsolver.discretization - 1 : march.next[j] < 0
    /\ march' = [march EXCEPT !.result = Some(SolutionOfRows(march))]
    /\ UNCHANGED <<nvars, tvars, session, wear, simulator, wrapper>>

MarchNext ==
    \/ MarchRow
    \/ ReturnSolution

SpecMarch == MarchInit /\ [][MarchNext]_vars

(***************************************************************************)
(* Calls with degenerate arguments: no load, a patch of no area            *)
(***************************************************************************)
\* patches with a = 0, with b = 0 and with both, and a pressure of 1 at every
\* grid point; a and b are both Python floats or both numpy.float64
DegeneratePatches(self) ==
    {[a |-> axes[1], b |-> axes[2], floats |-> floats,
      pressure_distribution |->
          [k \in 0 .. self.discretization * self.discretization - 1 |-> One]] :
        axes \in {<<Zero, Frac(1, 2)>>, <<Frac(1, 2), Zero>>, <<Zero, Zero>>},
        floats \in {"float", "numpy.float64"}}

\* solve_tangential_problem on a patch whose a and b have the given type:
\* the quotients a/b and b/a of calculate_flexibility_coefficients raise
\* ZeroDivisionError on a Python float divisor 0.0, and give inf or nan, with
\* a warning, on numpy.float64
solve_tangential_problem_of(self, contact_patch, creepages, normal_force) ==
    IF contact_patch.floats = "float" /\ (contact_patch.a = Zero \/ contact_patch.b = Zero)
    THEN [raised |-> "ZeroDivisionError"]
    ELSE [raised |-> ""]
           @@ solve_tangential_problem(self, contact_patch, creepages, normal_force)

DegenerateSolvers ==
    {TangentialSolver("FastSim", 3, 0), TangentialSolver("FaStrip", 3, 2)}

DegenerateCreepages ==
    {Creepage(Zero, Zero, Zero), Creepage(Num(3), Zero, Zero),
     Creepage(Num(-30), Num(40), Num(9))}

\* a normal solver asked for the patch of the force 0.0, a tangential solver
\* given a patch of no area
DegenerateInit ==
    /\ nsolver \in NormalSolvers
    /\ nargs \in [penetration : {None}, normal_force : {Some(Zero)},
                  yaw_angle : {"0", "pi/6"},
                  minimizer : {[success |-> TRUE, scale |-> One]}]
    /\ ncall = NoCall /\ nprev = NoCall
    /\ tsolver \in DegenerateSolvers
    /\ targs \in [contact_patch : DegeneratePatches(tsolver),
                  creepages : DegenerateCreepages, normal_force : {Zero}]
    /\ tcall = NoCall
    /\ ExtrasIdle

CallSolveTangentialProblemOf ==
    /\ tcall = NoCall
    /\ tcall' = [op |-> "solve_tangential_problem",
                 contact_patch |-> targs.contact_patch,
                 creepages |-> targs.creepages,
                 normal_force |-> targs.normal_force,
                 result |-> solve_tangential_problem_of(tsolver, targs.contact_patch,
                                targs.creepages, targs.normal_force)]
    /\ UNCHANGED <<nvars, tsolver, targs, xvars>>

DegenerateNext ==
    \/ CallCalculateContactPatch
    \/ CallSolveTangentialProblemOf

SpecDegenerate == DegenerateInit /\ [][DegenerateNext]_vars

(***************************************************************************)
(* full_model.py, kp_fastsim.py, mkp_fastrip.py: the integration wrappers  *)
(***************************************************************************)
\* the sum of the entries of an array
RECURSIVE SumOfArray(_)
SumOfArray(array) ==
    IF array = <<>> THEN Zero ELSE RAdd(Head(array), SumOfArray(Tail(array)))

\* np.mean: nan for the empty array
MeanOfArray(array) ==
    IF array = <<>> THEN NaN ELSE RDiv(SumOfArray(array), Num(Len(array)))

\* the tangential solver a wrapper constructs next to its normal solver, on
\* the same grid: FastSim in KPFastSim and KPFastSimUSFD, FaStrip in MKPFaStrip
TangentialModelOf(class, kp_model) ==
    IF class = "MKPFaStrip" THEN TangentialSolver("FaStrip", kp_model.discretization, 2)
    ELSE TangentialSolver("FastSim", kp_model.discretization, 0)

\* the record of a call a wrapper makes on one of its models (not in the
\* code): the method, the arguments it was given and what it returned
CallOf(callee, arguments, returned) ==
    [callee |-> callee, arguments |-> arguments, returned |-> returned]

\* self.fastsim_model.solve_tangential_problem(contact_patch=..., creepages=...,
\* normal_force=...), with its record
TangentialCallOf(fastsim_model, contact_patch, creepages, normal_force) ==
    CallOf("solve_tangential_problem",
           [contact_patch |-> contact_patch, creepages |-> creepages,
            normal_force |-> normal_force],
           solve_tangential_problem(fastsim_model, contact_patch, creepages, normal_force))

\* the dictionary returned with creepages, and the two calls made
WithTotalForces(normal_call, tangential_call) ==
    [returned |->
        [raised |-> "",
         normal_solution |-> normal_call.returned,
         tangential_solution |-> Some(tangential_call.returned),
         total_forces |->
             [normal |-> normal_call.returned.normal_force,
              tangential_x |-> tangential_call.returned.tangential_forces[1],
              tangential_y |-> tangential_call.returned.tangential_forces[2],
              moment |-> tangential_call.returned.moment]],
     calls |-> <<normal_call, tangential_call>>]

\* solve_contact_problem of a wrapper after its normal solver has run: what
\* that raised propagates; without creepages its solution is returned with
\* tangential_solution = None; with creepages the tangential solver runs on
\* the contact patch and the normal force of the normal solution
AfterNormalSolution(class, kp_model, creepages, normal_call) ==
    IF normal_call.returned.raised # ""
    THEN [returned |-> normal_call.returned, calls |-> <<normal_call>>]
    ELSE IF creepages = None
    THEN [returned |-> WrapNormalSolution(class, normal_call.returned),
          calls |-> <<normal_call>>]
    ELSE WithTotalForces(normal_call,
             TangentialCallOf(TangentialModelOf(class, kp_model),
                              normal_call.returned.contact_patch, creepages[1],
                              normal_call.returned.normal_force))

\* solve_contact_problem of KPFastSim, MKPFaStrip and KPFastSimUSFD: the
\* normal solver runs first.  The value is what the call returns, with the
\* calls it made on its models.
Wrapper_solve_contact_problem(class, kp_model, normal_force, penetration, creepages, yaw_angle, result) ==
    AfterNormalSolution(class, kp_model, creepages,
        CallOf("solve_contact_problem",
               [normal_force |-> normal_force, penetration |-> penetration,
                yaw_angle |-> yaw_angle],
               solve_contact_problem(kp_model, penetration, normal_force, yaw_angle, result)))

\* calculate_wear_rate of a friction power of predict_wear.  The forces of
\* the model are in units of 1e-8 and its slips in units of 1e-5, so the
\* friction powers are in units of 1e-13, and every number of the model is
\* below T1 = 10.4 in them: the rate is K1 * tgamma, in the units of tgamma,
\* and 0 where tgamma is nan, which none of the three masks selects.
WearRateOfPower(usfd_model, tgamma) ==
    IF IsNaN(tgamma) THEN Zero ELSE RMul(usfd_model.K1, tgamma)

\* calculate_wear_depth of a friction power of predict_wear
WearDepthOfPower(usfd_model, tgamma, sliding_distance, density) ==
    RDiv(RMul(VolumetricWearRate(WearRateOfPower(usfd_model, tgamma), density),
              sliding_distance),
         Num(1000))

\* slip_norm = np.sqrt(slip_x**2 + slip_y**2)
SlipNorm(slip_x, slip_y) ==
    [i \in 1 .. Len(slip_x) |-> RSqrt(RAdd(RSq(slip_x[i]), RSq(slip_y[i])))]

\* the friction power of each contact point: its share of the norm of the
\* total tangential force, in proportion to its slip, times its slip
LocalTgamma(slip_norm, tangential_force_norm, total_slip) ==
    [i \in 1 .. Len(slip_norm) |->
        RMul(RDiv(RMul(tangential_force_norm, slip_norm[i]), total_slip), slip_norm[i])]

\* the wear rates, depths and volume of the friction powers
WearSolution(usfd_model, local_tgamma, sliding_distance, contact_area, density) ==
    [raised |-> "",
     wear_rate |->
         MeanOfArray([i \in 1 .. Len(local_tgamma) |->
                         WearRateOfPower(usfd_model, local_tgamma[i])]),
     wear_depth |->
         MeanOfArray([i \in 1 .. Len(local_tgamma) |->
                         WearDepthOfPower(usfd_model, local_tgamma[i],
                                          sliding_distance, density)]),
     wear_volume |->
         RMul(WearDepthOfPower(usfd_model, MeanOfArray(local_tgamma),
                               sliding_distance, density),
              contact_area),
     local_wear_rate |->
         [i \in 1 .. Len(local_tgamma) |-> WearRateOfPower(usfd_model, local_tgamma[i])],
     local_wear_depth |->
         [i \in 1 .. Len(local_tgamma) |->
             WearDepthOfPower(usfd_model, local_tgamma[i], sliding_distance, density)]]

\* the friction powers of a tangential solution and of the total forces
TgammaOfSlip(slip_norm, total_forces) ==
    LocalTgamma(slip_norm,
                RSqrt(RAdd(RSq(total_forces.tangential_x), RSq(total_forces.tangential_y))),
                SumOfArray(slip_norm))

\* KPFastSimUSFD.predict_wear: ValueError for a contact solution without a
\* tangential solution; else the wear of the friction powers of its slip
predict_wear(usfd_model, contact_solution, sliding_distance, density) ==
    IF contact_solution.tangential_solution = None THEN [raised |-> "ValueError"]
    ELSE WearSolution(usfd_model,
             TgammaOfSlip(SlipNorm(contact_solution.tangential_solution[1].slip[1],
                                   contact_solution.tangential_solution[1].slip[2]),
                          contact_solution.total_forces),
             sliding_distance,
             contact_solution.normal_solution.contact_patch.area,
             density)

\* self.predict_wear(contact_solution=..., sliding_distance=..., density=...),
\* with its record
WearCallOf(usfd_model, contact_solution, sliding_distance, density) ==
    CallOf("predict_wear",
           [contact_solution |-> contact_solution,
            sliding_distance |-> sliding_distance, density |-> density],
           predict_wear(usfd_model, contact_solution, sliding_distance, density))

\* what simulate_contact_and_wear returns after predict_wear, whose exception
\* propagates
WithWearSolution(solved, wear_call) ==
    IF wear_call.returned.raised # ""
    THEN [returned |-> wear_call.returned, calls |-> solved.calls \o <<wear_call>>]
    ELSE [returned |-> [raised |-> "", contact_solution |-> solved.returned,
                        wear_solution |-> Some(wear_call.returned)],
          calls |-> solved.calls \o <<wear_call>>]

\* as AfterContactSolution, but predict_wear is called without creepages too
AfterContactSolution_always_predicting(usfd_model, creepages, sliding_distance, density, solved) ==
    IF solved.returned.raised # "" THEN solved
    ELSE WithWearSolution(solved,
             WearCallOf(usfd_model, solved.returned, sliding_distance, density))

\* simulate_contact_and_wear after solve_contact_problem, whose exception
\* propagates: without creepages the contact solution is returned with
\* wear_solution = None, with creepages predict_wear runs on it
AfterContactSolution(usfd_model, creepages, sliding_distance, density, solved) ==
    IF solved.returned.raised # "" THEN solved
    ELSE IF creepages = None
    THEN [returned |-> [raised |-> "", contact_solution |-> solved.returned,
                        wear_solution |-> None],
          calls |-> solved.calls]
    ELSE WithWearSolution(solved,
             WearCallOf(usfd_model, solved.returned, sliding_distance, density))

\* KPFastSimUSFD.simulate_contact_and_wear
KPFastSimUSFD_simulate_contact_and_wear(usfd_model, kp_model, normal_force, penetration, creepages, yaw_angle, sliding_distance, density, result) ==
    AfterContactSolution(usfd_model, creepages, sliding_distance, density,
        Wrapper_solve_contact_problem("KPFastSimUSFD", kp_model, normal_force,
            penetration, creepages, yaw_angle, result))

\* the normal solvers inside the wrappers
WrapperNormalSolvers ==
    {Solver("KP", <<Num(2), Num(2)>>, 3, Num(5)),
     Solver("KP", <<Frac(1, 2), Num(2)>>, 3, Num(5)),
     Solver("MKP", <<Num(2), Num(2)>>, 3, Num(5)),
     Solver("MKP", <<Num(2), Frac(1, 18)>>, 3, Num(5))}

\* a force or a penetration, both or neither, at zero yaw, whose semi-axes
\* are rational
WrapperNormalArgs(self) ==
    {r \in NormalArgs(self) :
        /\ r.yaw_angle = "0" /\ r.minimizer = [success |-> TRUE, scale |-> One]
        /\ r.normal_force \in OptionalOf(ExactForces(self))}

\* no creepages, or creepages along one axis (see Creepages)
WrapperCreepages ==
    OptionalOf({Creepage(Zero, Zero, Zero), Creepage(Num(3), Zero, Zero),
                Creepage(Num(-60), Zero, Zero), Creepage(Zero, Num(3), Zero)})

\* a wrapper of its class around the normal solver, the arguments of a call
WrapperInit ==
    /\ nsolver \in WrapperNormalSolvers
    /\ nargs \in WrapperNormalArgs(nsolver)
    /\ ncall = NoCall /\ nprev = NoCall
    /\ tsolver = Idle /\ targs = Idle /\ tcall = NoCall
    /\ session = Idle /\ wear = Idle /\ simulator = Idle /\ march = Idle
    /\ wrapper \in [class : Callers(nsolver) \cap Wrappers,
                    usfd_model : {USFDWearModel("R8T", "UIC60 900A")},
                    creepages : WrapperCreepages,
                    sliding_distance : {Num(1000)}, density : {Num(7850)},
                    call : {NoCall}]

\* what the minimizer of calculate_normal_force reports in these calls
WrapperMinimizer ==
    IF nargs.penetration = None THEN [success |-> TRUE, x |-> Zero]
    ELSE MinimizerResult(nsolver, nargs.penetration[1], nargs.minimizer)

\* The wrappers keep no state between calls: a behaviour makes one call.
CallWrapperSolveContactProblem ==
    /\ wrapper # Idle /\ wrapper.call = NoCall
    /\ wrapper' = [wrapper EXCEPT !.call =
                      [op |-> "solve_contact_problem"]
                        @@ Wrapper_solve_contact_problem(wrapper.class, nsolver,
                               nargs.normal_force, nargs.penetration, wrapper.creepages,
                               nargs.yaw_angle, WrapperMinimizer)]
    /\ UNCHANGED <<nvars, tvars, session, wear, simulator, march>>

\* the record of a call of predict_wear
PredictWearCall(usfd_model, contact_solution, sliding_distance, density) ==
    [op |-> "predict_wear",
     contact_solution |-> contact_solution,
     returned |-> predict_wear(usfd_model, contact_solution, sliding_distance, density),
     calls |-> <<>>]

\* predict_wear on what solve_contact_problem of the same object returned
CallPredictWear ==
    /\ wrapper # Idle /\ wrapper.call = NoCall
    /\ wrapper.class = "KPFastSimUSFD"
    /\ (nargs.penetration = None) # (nargs.normal_force = None)
    /\ wrapper' = [wrapper EXCEPT !.call =
                      PredictWearCall(wrapper.usfd_model,
                          Wrapper_solve_contact_problem(wrapper.class, nsolver,
                              nargs.normal_force, nargs.penetration, wrapper.creepages,
                              nargs.yaw_angle, WrapperMinimizer).returned,
                          wrapper.sliding_distance, wrapper.density)]
    /\ UNCHANGED <<nvars, tvars, session, wear, simulator, march>>

CallWrapperSimulateContactAndWear ==
    /\ wrapper # Idle /\ wrapper.call = NoCall
    /\ wrapper.class = "KPFastSimUSFD"
    /\ wrapper' = [wrapper EXCEPT !.call =
                      [op |-> "simulate_contact_and_wear"]
                        @@ KPFastSimUSFD_simulate_contact_and_wear(wrapper.usfd_model, nsolver,
                               nargs.normal_force, nargs.penetration, wrapper.creepages,
                               nargs.yaw_angle, wrapper.sliding_distance, wrapper.density,
                               WrapperMinimizer)]
    /\ UNCHANGED <<nvars, tvars, session, wear, simulator, march>>

WrapperNext ==
    \/ CallWrapperSolveContactProblem
    \/ CallPredictWear
    \/ CallWrapperSimulateContactAndWear

SpecWrapper == WrapperInit /\ [][WrapperNext]_vars

(***************************************************************************)
(* Properties of the normal solvers                                        *)
(***************************************************************************)
\* the dictionary of the normal solver inside the outcome of a call of
\* solve_contact_problem that returned
NormalSolution(call) ==
    IF call.caller \in Wrappers THEN call.result.normal_solution ELSE call.result

\* C1: solve_contact_problem, on the solvers and through the wrappers, raises
\* ValueError and nothing else (no contact patch exists) when penetration and
\* normal_force are both None or both supplied; when exactly one is supplied
\* it returns penetration, normal_force and contact_patch, the supplied one
\* unchanged.
C1_ExactlyOneOfPenetrationAndForce ==
    ncall.op = "solve_contact_problem" =>
        IF (ncall.penetration = None) = (ncall.normal_force = None)
        THEN ncall.result = [raised |-> "ValueError"]
        ELSE /\ ncall.result.raised = ""
             /\ DOMAIN NormalSolution(ncall)
                  = {"raised", "penetration", "normal_force", "contact_patch"}
             /\ ncall.penetration # None
                  => NormalSolution(ncall).penetration = ncall.penetration[1]
             /\ ncall.normal_force # None
                  => NormalSolution(ncall).normal_force = ncall.normal_force[1]

\* both arguments were supplied through a wrapper, and the call raised
C1_Witness ==
    /\ ncall.op = "solve_contact_problem"
    /\ ncall.caller = "KPFastSimUSFD"
    /\ ncall.penetration # None /\ ncall.normal_force # None
    /\ ncall.result.raised = "ValueError"

\* the semi-axis a = (3 F / (4 E* k)) ** (1/3) of a force is rational
ForceIsExact(self, normal_force) ==
    RootIsExact(RDiv(RMul(Num(3), normal_force),
                     RMul(RMul(Num(4), equivalent_youngs_modulus(self)),
                          CurvatureSum(calculate_curvatures(self.wheel_radius,
                                                            self.rail_radius, "0")))), 3)

\* the semi-axis a = sqrt(3 d / k) of a penetration is rational
PenetrationIsExact(self, penetration) ==
    RootIsExact(RDiv(RMul(Num(3), penetration),
                     CurvatureSum(calculate_curvatures(self.wheel_radius,
                                                       self.rail_radius, "0"))), 2)

\* C8: on KikPiotrowski, calculate_normal_force gives back the force whose
\* penetration it was handed, and calculate_penetration gives back the
\* penetration whose force it was handed (wherever the semi-axis is rational,
\* so that the model's roots are exact).
C8_PenetrationAndForceAreInverses ==
    (nsolver.variant = "KP" /\ nprev.op # "none") =>
        /\ ncall.arg = nprev.result
        /\ (ncall.op = "calculate_normal_force" /\ ForceIsExact(nsolver, nprev.arg))
              => (nprev.op = "calculate_penetration" /\ ncall.result = nprev.arg)
        /\ (ncall.op = "calculate_penetration" /\ PenetrationIsExact(nsolver, nprev.arg))
              => (nprev.op = "calculate_normal_force" /\ ncall.result = nprev.arg)

\* a force went through calculate_penetration and calculate_normal_force
C8_Witness ==
    /\ nsolver.variant = "KP"
    /\ nprev.op = "calculate_penetration"
    /\ ncall.op = "calculate_normal_force"
    /\ ForceIsExact(nsolver, nprev.arg)
    /\ nprev.arg = ncall.result
    /\ ncall.arg # ncall.result

\* the contact patch the last call computed, with the normal force it was
\* computed for
HasPatch ==
    \/ ncall.op = "calculate_contact_patch"
    \/ ncall.op = "solve_contact_problem" /\ ncall.result.raised = ""

LastPatch ==
    IF ncall.op = "calculate_contact_patch" THEN ncall.result
    ELSE NormalSolution(ncall).contact_patch

LastForce ==
    IF ncall.op = "calculate_contact_patch" THEN ncall.normal_force
    ELSE NormalSolution(ncall).normal_force

Flagged(contact_patch) ==
    "is_non_elliptical" \in DOMAIN contact_patch /\ contact_patch.is_non_elliptical

\* C9: every patch of KikPiotrowski, and every patch of ModifiedKikPiotrowski
\* not flagged non-elliptical, has mean_pressure = normal_force / area and
\* max_pressure = 1.5 * mean_pressure.
C9_MaxPressureIsThreeHalvesOfMean ==
    (HasPatch /\ ~Flagged(LastPatch)) =>
        /\ LastPatch.mean_pressure = RDiv(LastForce, LastPatch.area)
        /\ LastPatch.max_pressure = RMul(Frac(3, 2), LastPatch.mean_pressure)

\* an unflagged patch of ModifiedKikPiotrowski at a yaw angle, with an axis
\* ratio other than the limit
C9_Witness ==
    /\ ncall.op = "calculate_contact_patch"
    /\ nsolver.variant = "MKP"
    /\ ncall.yaw_angle = "pi/6"
    /\ ~ncall.result.is_non_elliptical
    /\ ncall.result.semi_axes_ratio # nsolver.semi_axes_ratio_limit
    /\ IsFinite(ncall.result.max_pressure) /\ RGt(ncall.result.max_pressure, Zero)

PatchFields == {"a", "b", "area", "max_pressure", "mean_pressure",
                "contact_points", "pressure_distribution"}

\* C10: a patch of ModifiedKikPiotrowski whose axis ratio does not exceed the
\* limit has the a, b, area, max_pressure, mean_pressure, contact_points and
\* pressure_distribution (at every grid point) of the patch of KikPiotrowski
\* for the same attributes, force and yaw angle.
C10_UnflaggedPatchIsThePatchOfKP ==
    (ncall.op = "calculate_contact_patch" /\ nsolver.variant = "MKP"
       /\ ~RGt(ncall.result.semi_axes_ratio, nsolver.semi_axes_ratio_limit)) =>
        \A f \in PatchFields :
            ncall.result[f]
              = KP_calculate_contact_patch(nsolver, ncall.normal_force, ncall.yaw_angle)[f]

(***************************************************************************)
(* Properties of the tangential solvers                                    *)
(***************************************************************************)
\* solve_tangential_problem was called and has returned
Solved == tcall.op = "solve_tangential_problem"

\* the flat indices of the grid of the call
GridPoints == 0 .. tsolver.discretization * tsolver.discretization - 1

\* the flat indices of the points inside the mask
MaskedPoints ==
    {k \in GridPoints :
        tcall.result.locals.mask[k \div tsolver.discretization][k % tsolver.discretization]}

\* component c of the returned shear stress at the masked point k: the
\* returned arrays hold the masked points row by row
ReturnedStress(c, k) ==
    tcall.result.shear_stresses[c][CountMasked(tcall.result.locals.mask,
                                               tsolver.discretization, k) + 1]

\* friction_coefficient * pressure at the masked point k, from the patch
BoundAt(k) ==
    RMul(tsolver.friction_coefficient, tcall.contact_patch.pressure_distribution[k])

\* sqrt(stress_x^2 + stress_y^2) <= bound, on the squares
NormAtMost(stress_x, stress_y, bound) ==
    IF stress_y = Zero THEN RLe(RAbs(stress_x), bound)
    ELSE IF stress_x = Zero THEN RLe(RAbs(stress_y), bound)
    ELSE RGe(bound, Zero) /\ RLe(RAdd(RSq(stress_x), RSq(stress_y)), RSq(bound))

\* sqrt(stress_x^2 + stress_y^2) < bound, on the squares
NormBelow(stress_x, stress_y, bound) ==
    IF stress_y = Zero THEN RLt(RAbs(stress_x), bound)
    ELSE IF stress_x = Zero THEN RLt(RAbs(stress_y), bound)
    ELSE RGt(bound, Zero) /\ RLt(RAdd(RSq(stress_x), RSq(stress_y)), RSq(bound))

\* the pressure of the patch is nowhere negative (nor NaN)
PressureIsNonNegative ==
    \A k \in GridPoints : RGe(tcall.contact_patch.pressure_distribution[k], Zero)

C3_AdheringStrictlyBelowBound ==
    Solved =>
        \A k \in tcall.result.locals.adhering :
            NormBelow(ReturnedStress(1, k), ReturnedStress(2, k), BoundAt(k))

\* C3: every point that incremented the adhesion counter is inside the
\* mask and has a shear-stress norm at most friction_coefficient times the
\* pressure there; a point whose norm equals the bound is counted as adhering
\* (the test is norm > bound), as are the points of zero pressure on the
\* ellipse whose trial stress is zero.
C3_AdheringWithinBound ==
    Solved =>
        \A k \in tcall.result.locals.adhering :
            /\ k \in MaskedPoints
            /\ NormAtMost(ReturnedStress(1, k), ReturnedStress(2, k), BoundAt(k))

\* under a creepage, a point adheres below a positive bound and a point of
\* zero pressure adheres with its norm equal to the bound
C3_Witness ==
    /\ Solved
    /\ tcall.creepages # Creepage(Zero, Zero, Zero)
    /\ \E k \in tcall.result.locals.adhering :
          /\ ReturnedStress(1, k) # Zero
          /\ NormBelow(ReturnedStress(1, k), ReturnedStress(2, k), BoundAt(k))
    /\ \E k \in tcall.result.locals.adhering :
          /\ BoundAt(k) = Zero
          /\ ReturnedStress(1, k) = Zero /\ ReturnedStress(2, k) = Zero

\* the number of times the loops processed point k
TimesVisited(k) ==
    Cardinality({n \in DOMAIN tcall.result.locals.visited :
                    tcall.result.locals.visited[n] = k})

\* C4: the adhesion_area that solve_tangential_problem of FastSim or FaStrip
\* returns lies in [0, 1]: the loops process no point outside the mask and no
\* point twice, so the adhesion counter does not exceed the number of masked
\* points; with no point inside the mask the result is 0.0.
C4_AdhesionAreaInUnitInterval ==
    Solved =>
        /\ RGe(tcall.result.adhesion_area, Zero) /\ RLe(tcall.result.adhesion_area, One)
        /\ \A k \in GridPoints : TimesVisited(k) <= (IF k \in MaskedPoints THEN 1 ELSE 0)
        /\ tcall.result.locals.adhesion_points = Cardinality(tcall.result.locals.adhering)
        /\ tcall.result.locals.adhesion_points <= tcall.result.locals.total_points
        /\ tcall.result.locals.total_points = Cardinality(MaskedPoints)
        /\ MaskedPoints = {} => tcall.result.adhesion_area = Zero

\* FaStrip with two strips on the 3 x 3 grid, whose middle row of three masked
\* points lies on the edge between the strips: some points adhere, some slide
C4_Witness ==
    /\ Solved
    /\ tsolver.variant = "FaStrip" /\ tsolver.num_strips = 2 /\ tsolver.discretization = 3
    /\ RGt(tcall.result.adhesion_area, Zero) /\ RLt(tcall.result.adhesion_area, One)
    /\ \E k \in MaskedPoints : TimesVisited(k) = 1 /\ k \notin tcall.result.locals.adhering

\* C5: with longitudinal, lateral and spin creepage all zero,
\* solve_tangential_problem of FastSim and of FaStrip returns adhesion_area = 1
\* on every grid, with every number of strips, that has a point inside the mask.
C5_ZeroCreepageIsFullAdhesion ==
    (Solved /\ tcall.creepages = Creepage(Zero, Zero, Zero) /\ MaskedPoints # {}) =>
        tcall.result.adhesion_area = One

\* the outcome of the call made, had the longitudinal creepage the other sign
Mirrored ==
    solve_tangential_problem(tsolver, tcall.contact_patch,
        Creepage(RNeg(tcall.creepages.longitudinal), Zero, Zero), tcall.normal_force)

\* the masked values of a field, negated
NegatedField(values) == [n \in DOMAIN values |-> RNeg(values[n])]

\* C6: with lateral creepage and spin zero, solving the same patch with the
\* longitudinal creepage -c instead of c gives the opposite longitudinal force
\* Fx and, point by point, the opposite longitudinal shear stress, on FastSim
\* and on FaStrip, corrected or not.
C6_LongitudinalSignSymmetry ==
    (Solved /\ tcall.creepages.lateral = Zero /\ tcall.creepages.spin = Zero) =>
        /\ Mirrored.tangential_forces[1] = RNeg(tcall.result.tangential_forces[1])
        /\ Mirrored.shear_stresses[1] = NegatedField(tcall.result.shear_stresses[1])

\* FaStrip under a low longitudinal creepage, its non-zero force corrected by
\* a factor other than 1
C6_Witness ==
    /\ Solved /\ tsolver.variant = "FaStrip"
    /\ tcall.creepages.lateral = Zero /\ tcall.creepages.spin = Zero
    /\ tcall.result.locals.corrected
    /\ RGt(tcall.result.tangential_forces[1], Zero)
    /\ tcall.result.tangential_forces[1] # tcall.result.locals.uncorrected_forces[1]
    /\ Mirrored.tangential_forces[1] = RNeg(tcall.result.tangential_forces[1])

\* the returned force F is the uncorrected force F0 times a factor in
\* [0.8, 1.2], which is 1 where abs(F0) <= 1e-10
CorrectedWithinRange(F, F0) ==
    IF RLe(RAbs(F0), ForceThreshold) THEN F = F0
    ELSE /\ RGe(RDiv(F, F0), Frac(4, 5))
         /\ RLe(RDiv(F, F0), Frac(6, 5))

\* C7: where FaStrip.solve_tangential_problem applies the low-creepage
\* correction, each of Fx and Fy is the uncorrected area-summed force times a
\* factor in [0.8, 1.2], and the factor is 1 where the uncorrected force is at
\* most 1e-10 in magnitude.
C7_CorrectedForceWithinRange ==
    (Solved /\ tsolver.variant = "FaStrip" /\ tcall.result.locals.corrected) =>
        \A c \in {1, 2} :
            CorrectedWithinRange(tcall.result.tangential_forces[c],
                                 tcall.result.locals.uncorrected_forces[c])

\* the correction was applied and changed a force above the threshold by a
\* factor at one of the limits
C7_Witness ==
    /\ Solved /\ tsolver.variant = "FaStrip" /\ tcall.result.locals.corrected
    /\ \E c \in {1, 2} :
          /\ RGt(RAbs(tcall.result.locals.uncorrected_forces[c]), ForceThreshold)
          /\ RDiv(tcall.result.tangential_forces[c],
                  tcall.result.locals.uncorrected_forces[c]) \in {Frac(4, 5), Frac(6, 5)}

\* the correction was applied to a non-zero force at most 1e-10 in magnitude
C7_SmallForceKept ==
    /\ Solved /\ tsolver.variant = "FaStrip" /\ tcall.result.locals.corrected
    /\ \E c \in {1, 2} :
          /\ tcall.result.locals.uncorrected_forces[c] # Zero
          /\ RLe(RAbs(tcall.result.locals.uncorrected_forces[c]), ForceThreshold)
          /\ tcall.result.tangential_forces[c] = tcall.result.locals.uncorrected_forces[c]

(***************************************************************************)
(* Further properties of the normal solvers                                *)
(***************************************************************************)
\* (x/a)^2 + (y/b)^2 at point k of a patch, from its contact_points
EllipseSumAt(contact_patch, k) ==
    RAdd(RSq(RDiv(contact_patch.contact_points[k][1], contact_patch.a)),
         RSq(RDiv(contact_patch.contact_points[k][2], contact_patch.b)))

\* C11: the pressure_distribution of every patch a normal solver returns, in
\* the elliptical and the non-elliptical branch, is at every grid point a
\* defined number, not negative, and zero where (x/a)^2 + (y/b)^2 > 1.
C11_PressureIsDefinedAndNonNegative ==
    HasPatch =>
        \A k \in DOMAIN LastPatch.pressure_distribution :
            /\ IsFinite(LastPatch.pressure_distribution[k])
            /\ RGe(LastPatch.pressure_distribution[k], Zero)
            /\ RGt(EllipseSumAt(LastPatch, k), One)
                  => LastPatch.pressure_distribution[k] = Zero

\* x is a number greater than zero
Positive(x) == IsFinite(x) /\ RGt(x, Zero)

\* solve_contact_problem was handed a normal force alone and has returned
SolvedForForce ==
    /\ ncall.op = "solve_contact_problem"
    /\ ncall.normal_force # None /\ ncall.penetration = None

\* C12: for a normal force > 0, solve_contact_problem of KikPiotrowski and of
\* ModifiedKikPiotrowski returns normal_force > 0, penetration > 0 and a patch
\* with a > 0, b > 0, area > 0 and max_pressure > 0, in the non-elliptical
\* branch as well.
C12_PositiveForceGivesPositivePatch ==
    (SolvedForForce /\ Positive(ncall.normal_force[1])) =>
        /\ Positive(NormalSolution(ncall).normal_force)
        /\ Positive(NormalSolution(ncall).penetration)
        /\ \A f \in {"a", "b", "area", "max_pressure"} :
              Positive(NormalSolution(ncall).contact_patch[f])

\* a non-elliptical patch of ModifiedKikPiotrowski whose semi-axis was
\* corrected
C12_Witness ==
    /\ SolvedForForce /\ Positive(ncall.normal_force[1])
    /\ nsolver.variant = "MKP"
    /\ NormalSolution(ncall).contact_patch.is_non_elliptical
    /\ Positive(NormalSolution(ncall).contact_patch.area)
    /\ Positive(NormalSolution(ncall).penetration)

\* calculate_normal_force of ModifiedKikPiotrowski was called and has returned
MKPForceCalled == ncall.op = "calculate_normal_force" /\ nsolver.variant = "MKP"

\* C13: ModifiedKikPiotrowski.calculate_normal_force starts the minimizer at
\* the closed-form force of KikPiotrowski for the penetration; it returns the
\* minimizer's point where the minimizer reports success and that closed-form
\* force where it reports failure, and raises in neither case.  What it
\* returns is a number alone, with nothing that tells the two cases apart.
C13_MinimizerFailureFallsBackToEstimate ==
    MKPForceCalled =>
        /\ MKP_initial_force(nsolver, ncall.arg, "0")
             = KP_calculate_normal_force(nsolver, ncall.arg)
        /\ ncall.result
             = IF nargs.minimizer.success
               THEN MinimizerResult(nsolver, ncall.arg, nargs.minimizer).x
               ELSE MKP_initial_force(nsolver, ncall.arg, "0")
        /\ DOMAIN ncall.result = {"n", "d"}

\* the minimizer stopped away from its start, reported failure, and the
\* closed-form force was returned
C13_Witness ==
    /\ MKPForceCalled
    /\ ~nargs.minimizer.success
    /\ MinimizerResult(nsolver, ncall.arg, nargs.minimizer).x # ncall.result
    /\ ncall.result = MKP_initial_force(nsolver, ncall.arg, "0")
    /\ Positive(ncall.result)

C15_PositiveFrictionPowerGivesPositiveWear ==
    (wear # Idle /\ wear.call # NoCall /\ Positive(wear.args.tgamma)
       /\ Positive(wear.args.sliding_distance) /\ Positive(wear.args.contact_area)) =>
        Positive(wear.call.result)

(***************************************************************************)
(* Properties of UICProfileSimulator                                       *)
(***************************************************************************)
\* the last call on the simulator was one of these
LastCallIs(ops) == simulator # Idle /\ simulator.call # NoCall /\ simulator.call.op \in ops

\* C16: after any sequence of calls, get_model(name) and
\* simulate_contact_and_wear(name, ...) have raised KeyError unless
\* create_model stored a model under the name before, and have left the
\* registry as it was; a create_model(w, r, d) without model_name that
\* returned has left its model, the newest one, retrievable under
\* "<w>_<r>_<d with one decimal>mm", whatever was registered under that name;
\* only names that create_model stored are registered.
C16_RegistryHoldsWhatCreateModelStored ==
    simulator # Idle =>
        /\ DOMAIN simulator.models = simulator.stored
        /\ LastCallIs({"get_model", "simulate_contact_and_wear"}) =>
              /\ simulator.models = simulator.call.before
              /\ (simulator.call.raised = "KeyError")
                    = (simulator.call.name \notin simulator.stored)
        /\ (LastCallIs({"get_model"}) /\ simulator.call.raised = "") =>
              simulator.call.result = simulator.models[simulator.call.name].model
        /\ (LastCallIs({"create_model"}) /\ simulator.call.raised # "") =>
              simulator.models = simulator.call.before
        /\ (LastCallIs({"create_model"}) /\ simulator.call.raised = ""
              /\ simulator.call.args[4] = None) =>
              /\ simulator.call.name
                   = DefaultModelName(simulator.call.args[1], simulator.call.args[2],
                                      simulator.call.args[3])
              /\ get_model(simulator, simulator.call.name)
                   = [raised |-> "", result |-> simulator.call.result]
              /\ simulator.call.result = simulator.created

\* create_model("S1002", "UIC60", 0.75) replaced the model registered as
\* "S1002_UIC60_0.8mm" before
C16_Witness ==
    /\ LastCallIs({"create_model"}) /\ simulator.call.raised = ""
    /\ simulator.call.args = <<<<"S1002">>, <<"UIC60">>, Frac(3, 4), None>>
    /\ simulator.call.name = <<"S1002", "_", "UIC60", "_", "0", ".", "8", "mm">>
    /\ simulator.call.name \in DOMAIN simulator.call.before
    /\ simulator.models[simulator.call.name].model
         # simulator.call.before[simulator.call.name].model

\* get_model raised KeyError for a name while another name was registered
C16_KeyErrorReached ==
    /\ LastCallIs({"get_model"}) /\ simulator.call.raised = "KeyError"
    /\ simulator.stored # {}

(***************************************************************************)
(* Properties of the march of the tangential solvers                       *)
(***************************************************************************)
\* the row and the column of the grid point with flat index k
RowOf(k) == k \div tsolver.discretization

ColumnOf(k) == k % tsolver.discretization

\* the edges of the strips of FaStrip
StripEdges ==
    linspace(RNeg(tcall.contact_patch.b), tcall.contact_patch.b, tsolver.num_strips + 1)

\* the strips whose half-open interval holds the ordinate of row j: one for a
\* row that is marched, none for the row y = +b
StripsOfRow(j) ==
    IF tsolver.variant = "FastSim" THEN {0}
    ELSE {s \in 0 .. tsolver.num_strips - 1 :
             /\ RGe(tcall.result.locals.y[j], StripEdges[s])
             /\ RLt(tcall.result.locals.y[j], StripEdges[s + 1])}

\* the ordinate the spin is taken at in row j: the row's own in FastSim, the
\* centre of its strip in FaStrip
SpinOrdinate(j) ==
    IF tsolver.variant = "FastSim" \/ StripsOfRow(j) = {} THEN tcall.result.locals.y[j]
    ELSE LET s == CHOOSE s \in StripsOfRow(j) : TRUE
         IN  RDiv(RAdd(StripEdges[s], StripEdges[s + 1]), Num(2))

\* the flexibility coefficients of the march
MarchFlexibility ==
    IF tsolver.variant = "FastSim"
    THEN calculate_flexibility_coefficients(tsolver, tcall.contact_patch.a,
                                            tcall.contact_patch.b)
    ELSE calculate_strip_flexibility_coefficients(tsolver, tcall.contact_patch.a,
             tcall.contact_patch.b,
             RDiv(RMul(Num(2), tcall.contact_patch.b), Num(tsolver.num_strips)))

\* the arrays after point k is computed again from the final arrays: its
\* elastic term is the final stress of (j, i+1) times the flexibility where
\* that point is inside the mask, and zero where it is not or i is the last
\* column
Replayed(k) ==
    ProcessPoint(tsolver, tcall.result.locals, tcall.result.locals.mask,
                 [j \in 0 .. tsolver.discretization - 1 |-> SpinOrdinate(j)],
                 tcall.result.locals.traction_bound, tcall.creepages, MarchFlexibility,
                 tcall.result.locals.dx, tcall.result.locals, RowOf(k), ColumnOf(k))

\* the stress and the slip at point k are the same in both sets of arrays
SameAt(m1, m2, k) ==
    /\ m1.shear_stress_x[k] = m2.shear_stress_x[k]
    /\ m1.shear_stress_y[k] = m2.shear_stress_y[k]
    /\ m1.slip_x[k] = m2.slip_x[k]
    /\ m1.slip_y[k] = m2.slip_y[k]

\* point k has a neighbour (j, i+1) inside the mask
HasUpstreamNeighbour(k) ==
    /\ ColumnOf(k) < tsolver.discretization - 1
    /\ tcall.result.locals.mask[RowOf(k)][ColumnOf(k) + 1]

\* C17: in the march of solve_tangential_problem (FastSim; FaStrip, strip by
\* strip) the points are processed by decreasing column: of two points of one
\* march the one processed first is in no lower column, and in a higher one
\* if they share the row.  When a point (j, i) is processed its neighbour
\* (j, i+1), if inside the mask, has been processed before, and the stress and
\* slip left at (j, i) are those computed from that neighbour's final stress
\* as the elastic term; a point with no neighbour inside the mask at i+1 is
\* computed with elastic displacement zero.
C17_MarchIsTrailingToLeading ==
    Solved =>
        /\ \A n, p \in DOMAIN tcall.result.locals.visited :
              (/\ n < p
               /\ StripsOfRow(RowOf(tcall.result.locals.visited[n]))
                    = StripsOfRow(RowOf(tcall.result.locals.visited[p]))) =>
                 /\ ColumnOf(tcall.result.locals.visited[n])
                      >= ColumnOf(tcall.result.locals.visited[p])
                 /\ RowOf(tcall.result.locals.visited[n])
                      = RowOf(tcall.result.locals.visited[p]) =>
                       ColumnOf(tcall.result.locals.visited[n])
                         > ColumnOf(tcall.result.locals.visited[p])
        /\ \A n \in DOMAIN tcall.result.locals.visited :
              /\ HasUpstreamNeighbour(tcall.result.locals.visited[n]) =>
                    \E p \in 1 .. n - 1 :
                        tcall.result.locals.visited[p] = tcall.result.locals.visited[n] + 1
              /\ SameAt(Replayed(tcall.result.locals.visited[n]), tcall.result.locals,
                        tcall.result.locals.visited[n])

\* FaStrip with two strips or more processed a point with a non-zero stress
\* whose neighbour at i+1 slid and was left with a non-zero stress, and a
\* point with no neighbour in the mask
C17_Witness ==
    /\ Solved /\ tsolver.variant = "FaStrip" /\ tsolver.num_strips >= 2
    /\ \E n \in DOMAIN tcall.result.locals.visited :
          LET k == tcall.result.locals.visited[n]
          IN  /\ HasUpstreamNeighbour(k)
              /\ k + 1 \notin tcall.result.locals.adhering
              /\ tcall.result.locals.shear_stress_x[k + 1] # Zero
              /\ tcall.result.locals.shear_stress_x[k] # Zero
    /\ \E n \in DOMAIN tcall.result.locals.visited :
          ~HasUpstreamNeighbour(tcall.result.locals.visited[n])

\* the same in FastSim
C17_FastSimReached ==
    /\ Solved /\ tsolver.variant = "FastSim"
    /\ \E n \in DOMAIN tcall.result.locals.visited :
          LET k == tcall.result.locals.visited[n]
          IN  /\ HasUpstreamNeighbour(k)
              /\ k + 1 \notin tcall.result.locals.adhering
              /\ tcall.result.locals.shear_stress_x[k + 1] # Zero
              /\ tcall.result.locals.shear_stress_x[k] # Zero

\* the rows of the march are being processed / the point k has been processed
Marching == march # Idle

Processed(k) ==
    /\ march.in_mask[RowOf(k)][ColumnOf(k)]
    /\ ColumnOf(k) > march.next[RowOf(k)]

\* C18: the rows of the tangential march are independent.  With the rows
\* processed in any order and interleaving, each by decreasing column, every
\* point processed so far holds the stress and the slip that the code's march
\* leaves there and every other point is untouched; once all rows are done
\* the adhesion count, the forces, the moment, the returned stresses and
\* slips and adhesion_area are those of the code's call.
C18_RowsAreIndependent ==
    Marching =>
        /\ \A k \in GridPoints :
              IF Processed(k) THEN SameAt(march.m, tcall.result.locals, k)
              ELSE SameAt(march.m, InitialFields(tsolver.discretization), k)
        /\ march.result # None =>
              /\ march.m.adhesion_points = tcall.result.locals.adhesion_points
              /\ march.result[1].tangential_forces = tcall.result.tangential_forces
              /\ march.result[1].moment = tcall.result.moment
              /\ march.result[1].shear_stresses = tcall.result.shear_stresses
              /\ march.result[1].slip = tcall.result.slip
              /\ march.result[1].adhesion_area = tcall.result.adhesion_area

\* on the 4 x 4 grid all rows were processed, row 2 before row 1, which the
\* code takes first in every column; the second point of row 2 was computed
\* from the non-zero stress of the first
C18_Witness ==
    /\ Marching /\ march.result # None
    /\ tsolver.discretization = 4
    /\ Len(march.m.visited) = 4
    /\ march.m.visited = <<10, 9, 6, 5>>
    /\ march.m.visited # tcall.result.locals.visited
    /\ march.m.shear_stress_x[10] # Zero
    /\ march.m.shear_stress_x[9] # Zero

\* normal forces other than the one of the call
OtherNormalForces == {Zero, Num(2)}

\* C19: what solve_tangential_problem of FastSim and FaStrip returns (forces,
\* moment, shear stresses, slip, adhesion_area, and the arrays it computed
\* them from) does not depend on normal_force: a second call on the same
\* patch and creepages with another normal_force returns the same.
C19_ResultIgnoresNormalForce ==
    Solved =>
        \A normal_force \in OtherNormalForces :
            solve_tangential_problem(tsolver, tcall.contact_patch, tcall.creepages,
                                     normal_force) = tcall.result

\* FastSim returned non-zero forces, with points in adhesion and points
\* sliding, for normal_force 1
C19_Witness ==
    /\ Solved /\ tsolver.variant = "FastSim"
    /\ tcall.normal_force \notin OtherNormalForces
    /\ tcall.result.tangential_forces[1] # Zero
    /\ tcall.result.tangential_forces[2] # Zero
    /\ RGt(tcall.result.adhesion_area, Zero) /\ RLt(tcall.result.adhesion_area, One)

\* the same for FaStrip
C19_FaStripReached ==
    /\ Solved /\ tsolver.variant = "FaStrip"
    /\ tcall.normal_force \notin OtherNormalForces
    /\ tcall.result.tangential_forces[1] # Zero
    /\ tcall.result.tangential_forces[2] # Zero
    /\ RGt(tcall.result.adhesion_area, Zero) /\ RLt(tcall.result.adhesion_area, One)

(***************************************************************************)
(* Properties of the returned tangential solution                          *)
(***************************************************************************)
\* the sum of f over the points of S
RECURSIVE SumOver(_, _)
SumOver(f, S) ==
    IF S = {} THEN Zero
    ELSE LET k == CHOOSE k \in S : TRUE
         IN  RAdd(f[k], SumOver(f, S \ {k}))

\* the area element: the square of 2 * a / discretization
AreaElement ==
    RSq(RDiv(RMul(Num(2), tcall.contact_patch.a), Num(tsolver.discretization)))

\* the area element times the sum of component c of the returned shear
\* stress over the masked points
StressResultant(c) ==
    RMul(AreaElement, SumOver([k \in MaskedPoints |-> ReturnedStress(c, k)], MaskedPoints))

\* the area element times the sum of x * tau_y - y * tau_x over the masked
\* points, of the returned shear stress
StressMoment ==
    RMul(AreaElement,
         SumOver([k \in MaskedPoints |->
                     RSub(RMul(tcall.result.locals.x[ColumnOf(k)], ReturnedStress(2, k)),
                          RMul(tcall.result.locals.y[RowOf(k)], ReturnedStress(1, k)))],
                 MaskedPoints))

\* both creepages are below the threshold 1e-4 of FaStrip's correction
LowCreepage ==
    /\ RLt(RAbs(tcall.creepages.longitudinal), CreepageThreshold)
    /\ RLt(RAbs(tcall.creepages.lateral), CreepageThreshold)

\* C20 as it was stated: for FastSim and FaStrip and every creepage vector,
\* the low ones included, the returned forces are the area element times the
\* sums of the returned shear-stress components over the masked points, and
\* the returned moment the area element times the sum of x*tau_y - y*tau_x.
C20_ForcesAreSumsOfReturnedStress ==
    Solved =>
        /\ tcall.result.tangential_forces = <<StressResultant(1), StressResultant(2)>>
        /\ tcall.result.moment = StressMoment

\* C20: the returned moment is the area element times the sum of
\* x*tau_y - y*tau_x of the returned shear stress over the masked points; the
\* returned forces are the area element times the sums of the returned
\* shear-stress components, except those of FaStrip where both creepages are
\* below the threshold: there each is that sum times its correction factor,
\* a number in [0.8, 1.2], and the stresses are returned uncorrected.
C20_ForcesAreSumsUnlessCorrected ==
    Solved =>
        /\ tcall.result.moment = StressMoment
        /\ IF tsolver.variant = "FaStrip" /\ LowCreepage
           THEN /\ tcall.result.tangential_forces
                     = <<RMul(StressResultant(1), tcall.result.locals.correction_x),
                         RMul(StressResultant(2), tcall.result.locals.correction_y)>>
                /\ RGe(tcall.result.locals.correction_x, Frac(4, 5))
                /\ RLe(tcall.result.locals.correction_x, Frac(6, 5))
                /\ RGe(tcall.result.locals.correction_y, Frac(4, 5))
                /\ RLe(tcall.result.locals.correction_y, Frac(6, 5))
           ELSE tcall.result.tangential_forces = <<StressResultant(1), StressResultant(2)>>

\* FaStrip was called with low creepages and returned a force that is not the
\* sum of its stresses, and a non-zero moment
C20_Witness ==
    /\ Solved /\ tsolver.variant = "FaStrip" /\ LowCreepage
    /\ StressResultant(2) # Zero
    /\ tcall.result.tangential_forces[2] # StressResultant(2)
    /\ tcall.result.moment # Zero

\* FastSim returned non-zero forces and a non-zero moment
C20_FastSimReached ==
    /\ Solved /\ tsolver.variant = "FastSim"
    /\ tcall.result.tangential_forces[2] # Zero
    /\ tcall.result.moment # Zero

(***************************************************************************)
(* Properties of the strips of FaStrip                                     *)
(***************************************************************************)
\* C21: in FaStrip.solve_tangential_problem the strips partition the points
\* inside the mask: every such point, those of the rows y = -b and y = +b
\* included, is in exactly one strip and is processed exactly once, and is
\* then either counted as adhering or slid.
C21_StripsPartitionTheMask ==
    (Solved /\ tsolver.variant = "FaStrip") =>
        \A k \in MaskedPoints :
            /\ Cardinality(StripsOfRow(RowOf(k))) = 1
            /\ TimesVisited(k) = 1

\* the elastic displacement over dx at point k, of component c, from the
\* final stress of the neighbour (j, i+1)
ElasticSlipAt(k, shear_stress, L) ==
    IF HasUpstreamNeighbour(k)
    THEN RDiv(RMul(shear_stress[k + 1], L), tcall.result.locals.dx)
    ELSE Zero

\* the arrays after Coulomb's law is applied at point k to the rigid slip
\* (longitudinal - spin * ordinate, lateral + spin * x) less the elastic
\* displacement over dx
WithRigidSlipAt(k, ordinate) ==
    SlipAtPoint(tsolver, [tcall.result.locals EXCEPT !.adhering = {}], k,
        tcall.result.locals.dx, tcall.result.locals.traction_bound[k],
        RSub(RSub(tcall.creepages.longitudinal, RMul(tcall.creepages.spin, ordinate)),
             ElasticSlipAt(k, tcall.result.locals.shear_stress_x, MarchFlexibility.L1)),
        RSub(RAdd(tcall.creepages.lateral,
                  RMul(tcall.creepages.spin, tcall.result.locals.x[ColumnOf(k)])),
             ElasticSlipAt(k, tcall.result.locals.shear_stress_y, MarchFlexibility.L2)))

\* C22: the rigid slip at a point (x, y) is (longitudinal - spin * y_center,
\* lateral + spin * x) in FaStrip, y_center being the centre of the point's
\* strip, and (longitudinal - spin * y, lateral + spin * x) in FastSim: the
\* stress and the slip left at every processed point, and whether it was
\* counted as adhering, are those of Coulomb's law on that rigid slip less
\* the elastic displacement.
C22_SpinIsTakenAtTheStripCentre ==
    Solved =>
        \A n \in DOMAIN tcall.result.locals.visited :
            LET k == tcall.result.locals.visited[n]
                replayed == WithRigidSlipAt(k,
                                IF tsolver.variant = "FaStrip"
                                THEN SpinOrdinate(RowOf(k))
                                ELSE tcall.result.locals.y[RowOf(k)])
            IN  /\ SameAt(replayed, tcall.result.locals, k)
                /\ (k \in replayed.adhering) = (k \in tcall.result.locals.adhering)

\* FaStrip was called with spin and counted as adhering, with a non-zero
\* longitudinal slip, a point whose ordinate is not the centre of its strip
C22_Witness ==
    /\ Solved /\ tsolver.variant = "FaStrip" /\ tcall.creepages.spin # Zero
    /\ \E n \in DOMAIN tcall.result.locals.visited :
          LET k == tcall.result.locals.visited[n]
          IN  /\ tcall.result.locals.y[RowOf(k)] # SpinOrdinate(RowOf(k))
              /\ k \in tcall.result.locals.adhering
              /\ tcall.result.locals.slip_x[k] # Zero

\* FastSim was called with spin and processed a point off the axis y = 0
C22_FastSimReached ==
    /\ Solved /\ tsolver.variant = "FastSim" /\ tcall.creepages.spin # Zero
    /\ \E n \in DOMAIN tcall.result.locals.visited :
          tcall.result.locals.y[RowOf(tcall.result.locals.visited[n])] # Zero

\* what FaStrip has computed when the loop over the strips is left, before
\* the correction
BeforeCorrection ==
    TangentialSolution(tsolver, tcall.result.locals, tcall.result.locals.traction_bound,
        tcall.result.locals.dx, tcall.result.locals.dA,
        StripLoop(tsolver, tcall.contact_patch, tcall.result.locals,
                  tcall.result.locals.traction_bound, tcall.creepages,
                  RDiv(RMul(Num(2), tcall.contact_patch.b), Num(tsolver.num_strips)),
                  StripEdges, tcall.result.locals.dx,
                  InitialFields(tsolver.discretization), 0))

\* the factor of the correction of a force F for the creepage along it
FactorOf(creepage, L, F) ==
    CorrectionFactor(LinearForce(tsolver, tcall.contact_patch.a, tcall.contact_patch.b,
                                 creepage, L), F)

\* the flexibility coefficients of the whole patch
FullFlexibility ==
    calculate_flexibility_coefficients(tsolver, tcall.contact_patch.a, tcall.contact_patch.b)

\* the forces are those before the correction, each times its factor
ForcesAreCorrected(before) ==
    tcall.result.tangential_forces
      = <<RMul(before.tangential_forces[1],
               FactorOf(tcall.creepages.longitudinal, FullFlexibility.L1,
                        before.tangential_forces[1])),
          RMul(before.tangential_forces[2],
               FactorOf(tcall.creepages.lateral, FullFlexibility.L2,
                        before.tangential_forces[2]))>>

\* the moment, the fields and adhesion_area are those before the correction
OnlyForcesDiffer(before) ==
    /\ tcall.result.moment = before.moment
    /\ tcall.result.shear_stresses = before.shear_stresses
    /\ tcall.result.slip = before.slip
    /\ tcall.result.adhesion_area = before.adhesion_area

\* C23: FaStrip applies the correction by the linear theory exactly when the
\* longitudinal and the lateral creepage are both below 1e-4 in magnitude,
\* whatever the spin: then each force is the area sum times its factor, else
\* the forces are the area sums.  The moment, the shear stresses, the slip
\* and adhesion_area are in every case those computed before the correction.
C23_CorrectionOnlyAtLowCreepage ==
    (Solved /\ tsolver.variant = "FaStrip") =>
        /\ tcall.result.locals.corrected = LowCreepage
        /\ OnlyForcesDiffer(BeforeCorrection)
        /\ IF LowCreepage THEN ForcesAreCorrected(BeforeCorrection)
           ELSE /\ tcall.result.tangential_forces = BeforeCorrection.tangential_forces
                /\ tcall.result.tangential_forces
                     = <<StressResultant(1), StressResultant(2)>>

\* FaStrip was called with low creepages and a spin and changed a force
C23_Witness ==
    /\ Solved /\ tsolver.variant = "FaStrip" /\ LowCreepage
    /\ tcall.creepages.spin # Zero
    /\ tcall.result.tangential_forces # tcall.result.locals.uncorrected_forces

\* FaStrip was called with a creepage at the threshold and returned the
\* non-zero area sum
C23_AtThresholdReached ==
    /\ Solved /\ tsolver.variant = "FaStrip"
    /\ RAbs(tcall.creepages.longitudinal) = CreepageThreshold
    /\ tcall.result.tangential_forces[1] # Zero

(***************************************************************************)
(* Properties of the returned fields                                       *)
(***************************************************************************)
\* component c of the returned slip at the masked point k
ReturnedSlip(c, k) ==
    tcall.result.slip[c][CountMasked(tcall.result.locals.mask, tsolver.discretization, k) + 1]

\* slip * shear_modulus * dx, with dx = 2 * a / discretization
StressOfSlip(slip) ==
    RMul(RMul(slip, tsolver.shear_modulus),
         RDiv(RMul(Num(2), tcall.contact_patch.a), Num(tsolver.discretization)))

\* C24: after solve_tangential_problem of FastSim or FaStrip, at every point
\* inside the mask each component of the returned shear stress is the
\* returned slip times shear_modulus times dx, at adhering points (trial
\* values kept) and at sliding points (slip recomputed from the scaled
\* stress) alike; outside the mask stress and slip are zero.
C24_StressIsSlipTimesStiffness ==
    Solved =>
        \A k \in GridPoints :
            IF k \in MaskedPoints
            THEN /\ ReturnedStress(1, k) = StressOfSlip(ReturnedSlip(1, k))
                 /\ ReturnedStress(2, k) = StressOfSlip(ReturnedSlip(2, k))
            ELSE SameAt(tcall.result.locals, InitialFields(tsolver.discretization), k)

\* a point slid and was left with a non-zero stress, another was counted as
\* adhering with a non-zero stress
C24_Witness ==
    /\ Solved
    /\ \E k \in MaskedPoints :
          /\ TimesVisited(k) = 1 /\ k \notin tcall.result.locals.adhering
          /\ ReturnedStress(1, k) # Zero /\ ReturnedSlip(1, k) # Zero
    /\ \E k \in tcall.result.locals.adhering :
          ReturnedStress(1, k) # Zero /\ ReturnedSlip(1, k) # Zero
    /\ GridPoints # MaskedPoints

(***************************************************************************)
(* Properties of the calls with degenerate arguments                       *)
(***************************************************************************)
\* every number of the sequence or function f is finite
AllFinite(f) == \A k \in DOMAIN f : IsFinite(f[k])

\* C25: degenerate arguments are guarded.  calculate_contact_patch for the
\* normal force 0 returns a patch whose a, b, area, max_pressure,
\* mean_pressure and pressures are finite numbers; solve_tangential_problem
\* on a patch with a = 0 or b = 0 raises no division-by-zero error and
\* returns finite forces, moment, shear stresses, slip and adhesion_area.
C25_DegenerateArgumentsAreGuarded ==
    /\ ncall.op = "calculate_contact_patch" =>
          /\ \A f \in {"a", "b", "area", "max_pressure", "mean_pressure"} :
                IsFinite(ncall.result[f])
          /\ AllFinite(ncall.result.pressure_distribution)
    /\ tcall.op = "solve_tangential_problem" =>
          /\ tcall.result.raised = ""
          /\ AllFinite(tcall.result.tangential_forces)
          /\ IsFinite(tcall.result.moment)
          /\ IsFinite(tcall.result.adhesion_area)
          /\ \A c \in 1 .. 2 : AllFinite(tcall.result.shear_stresses[c])
          /\ \A c \in 1 .. 2 : AllFinite(tcall.result.slip[c])

(***************************************************************************)
(* Properties of the curvatures and of the non-elliptical correction       *)
(***************************************************************************)
\* a call that computed a patch, at its yaw angle, has been made
CalledAtYaw == HasPatch

\* the curvatures of the call, as calculate_curvatures returns them
CurvaturesOfCall ==
    calculate_curvatures(nsolver.wheel_radius, nsolver.rail_radius, ncall.yaw_angle)

\* C26: calculate_curvatures returns 1/wheel_radius and 1/rail_radius for
\* |yaw_angle| <= 1e-6; for a larger yaw angle it returns
\* longitudinal = k_long cos^2 + k_lat sin^2 and
\* lateral = k_lat cos^2 + k_long sin^2 of the two curvatures k_long =
\* 1/wheel_radius and k_lat = 1/rail_radius, whose sum is k_long + k_lat.
C26_CurvaturesAreBlendedFromTheOriginals ==
    CalledAtYaw =>
        IF YawIsNegligible(ncall.yaw_angle)
        THEN CurvaturesOfCall = [longitudinal |-> RDiv(One, nsolver.wheel_radius),
                                 lateral |-> RDiv(One, nsolver.rail_radius)]
        ELSE /\ CurvaturesOfCall.longitudinal
                  = RAdd(RMul(RDiv(One, nsolver.wheel_radius), Cos2(ncall.yaw_angle)),
                         RMul(RDiv(One, nsolver.rail_radius), Sin2(ncall.yaw_angle)))
             /\ CurvaturesOfCall.lateral
                  = RAdd(RMul(RDiv(One, nsolver.rail_radius), Cos2(ncall.yaw_angle)),
                         RMul(RDiv(One, nsolver.wheel_radius), Sin2(ncall.yaw_angle)))
             /\ RAdd(CurvaturesOfCall.longitudinal, CurvaturesOfCall.lateral)
                  = RAdd(RDiv(One, nsolver.wheel_radius), RDiv(One, nsolver.rail_radius))

\* calculate_contact_patch of ModifiedKikPiotrowski has returned a patch
MKPPatchCalled == ncall.op = "calculate_contact_patch" /\ nsolver.variant = "MKP"

\* the semi-axes a, b before the correction
UncorrectedAxes == HertzSemiAxes(nsolver, ncall.normal_force, ncall.yaw_angle)

\* 1 - 0.25 * (1 - semi_axes_ratio_limit / semi_axes_ratio)
FactorOfCall ==
    RSub(One, RMul(Frac(1, 4),
                   RSub(One, RDiv(nsolver.semi_axes_ratio_limit,
                                  ncall.result.semi_axes_ratio))))

\* the flag is set exactly for g = max(a/b, b/a) > semi_axes_ratio_limit; in
\* a flagged patch the larger semi-axis is the uncorrected one times the root
\* of the correction factor, hence smaller (the root is compared where it is
\* rational), the smaller is the uncorrected one, the factor lies in
\* (0.75, 1) and max_pressure exceeds 1.5 * mean_pressure
FlagAndAxesAreCorrected ==
    /\ ncall.result.semi_axes_ratio
         = RMax(RDiv(UncorrectedAxes.a, UncorrectedAxes.b),
                RDiv(UncorrectedAxes.b, UncorrectedAxes.a))
    /\ ncall.result.is_non_elliptical
         = RGt(ncall.result.semi_axes_ratio, nsolver.semi_axes_ratio_limit)
    /\ ~ncall.result.is_non_elliptical =>
          ncall.result.a = UncorrectedAxes.a /\ ncall.result.b = UncorrectedAxes.b
    /\ ncall.result.is_non_elliptical =>
          /\ RGt(FactorOfCall, Frac(3, 4)) /\ RLt(FactorOfCall, One)
          /\ IF RGt(UncorrectedAxes.a, UncorrectedAxes.b)
             THEN /\ ncall.result.a = RMul(UncorrectedAxes.a, RSqrt(FactorOfCall))
                  /\ RLe(ncall.result.a, UncorrectedAxes.a)
                  /\ RootIsExact(FactorOfCall, 2) => RLt(ncall.result.a, UncorrectedAxes.a)
                  /\ ncall.result.b = UncorrectedAxes.b
             ELSE /\ ncall.result.b = RMul(UncorrectedAxes.b, RSqrt(FactorOfCall))
                  /\ RLe(ncall.result.b, UncorrectedAxes.b)
                  /\ RootIsExact(FactorOfCall, 2) => RLt(ncall.result.b, UncorrectedAxes.b)
                  /\ ncall.result.a = UncorrectedAxes.a
          /\ RGt(ncall.result.max_pressure, RMul(Frac(3, 2), ncall.result.mean_pressure))

\* C27 as it was stated: ... and the area of a flagged patch is the
\* elliptical area pi * a * b of the uncorrected semi-axes times the
\* correction factor.
C27_AreaOfUncorrectedAxesIsScaled ==
    (MKPPatchCalled /\ Positive(ncall.normal_force)) =>
        /\ FlagAndAxesAreCorrected
        /\ ncall.result.is_non_elliptical =>
              ncall.result.area
                = RMul(RMul(RMul(Pi, UncorrectedAxes.a), UncorrectedAxes.b), FactorOfCall)

\* C27: a patch of ModifiedKikPiotrowski is flagged non-elliptical exactly
\* when g = max(a/b, b/a) is strictly greater than semi_axes_ratio_limit; in
\* a flagged patch only the larger semi-axis is shrunk, by the root of the
\* correction factor, which lies in (0.75, 1), max_pressure exceeds
\* 1.5 * mean_pressure, and the area is pi times the returned (corrected)
\* semi-axes times the correction factor.
C27_AreaOfCorrectedAxesIsScaled ==
    (MKPPatchCalled /\ Positive(ncall.normal_force)) =>
        /\ FlagAndAxesAreCorrected
        /\ ncall.result.is_non_elliptical =>
              ncall.result.area
                = RMul(RMul(RMul(Pi, ncall.result.a), ncall.result.b), FactorOfCall)

\* a flagged patch with the correction factor 0.81, whose larger semi-axis a
\* is 0.9 times the uncorrected one
C27_Witness ==
    /\ MKPPatchCalled /\ Positive(ncall.normal_force)
    /\ ncall.result.is_non_elliptical
    /\ FactorOfCall = Frac(81, 100)
    /\ ncall.result.a = RMul(Frac(9, 10), UncorrectedAxes.a)
    /\ ncall.result.b = UncorrectedAxes.b

\* a patch whose ratio is the limit, not flagged
C27_AtLimitReached ==
    /\ MKPPatchCalled /\ Positive(ncall.normal_force)
    /\ ncall.result.semi_axes_ratio = nsolver.semi_axes_ratio_limit
    /\ ~ncall.result.is_non_elliptical

(***************************************************************************)
(* Properties of the grid step and of the area element                     *)
(***************************************************************************)

\* the grid of the contact patch of the call
GridOfCall ==
    discretize_contact_patch(tcall.contact_patch.a, tcall.contact_patch.b,
                             tsolver.discretization)

\* the spacings between adjacent grid abscissas and between adjacent ordinates
SpacingX == RSub(GridOfCall.x[1], GridOfCall.x[0])
SpacingY == RSub(GridOfCall.y[1], GridOfCall.y[0])

\* the grid has adjacent coordinates, and the forces are not those of
\* FaStrip's low-creepage correction
Uncorrected ==
    /\ tsolver.discretization > 1
    /\ ~(tsolver.variant = "FaStrip" /\ LowCreepage)

\* the sum of component c of the returned shear stress over the masked points
StressSum(c) == SumOver([k \in MaskedPoints |-> ReturnedStress(c, k)], MaskedPoints)

\* C28: the grid step dx of the marching recurrence is the spacing between
\* adjacent grid abscissas, and the area weight that turns the summed shear
\* stress into the forces is the area of one cell of the grid, the spacing
\* of the abscissas times the spacing of the ordinates.
C28_AreaWeightIsOneGridCell ==
    (Solved /\ Uncorrected) =>
        /\ GridStep(tsolver, tcall.contact_patch.a) = SpacingX
        /\ tcall.result.tangential_forces
             = <<RMul(RMul(SpacingX, SpacingY), StressSum(1)),
                 RMul(RMul(SpacingX, SpacingY), StressSum(2))>>

\* what the code does: dx = 2a / discretization, which is
\* (discretization - 1) / discretization of the spacing of the abscissas, and
\* the area weight is dx * dx, whatever the spacing of the ordinates
C28_AreaWeightIsSquareOfStep ==
    (Solved /\ Uncorrected) =>
        /\ GridStep(tsolver, tcall.contact_patch.a)
             = RMul(Frac(tsolver.discretization - 1, tsolver.discretization), SpacingX)
        /\ tcall.result.tangential_forces
             = <<RMul(RSq(GridStep(tsolver, tcall.contact_patch.a)), StressSum(1)),
                 RMul(RSq(GridStep(tsolver, tcall.contact_patch.a)), StressSum(2))>>

\* a solve with a non-zero force on a patch with a /= b
C28_NonZeroForceReached ==
    /\ Solved /\ Uncorrected
    /\ tcall.contact_patch.a /= tcall.contact_patch.b
    /\ tcall.result.tangential_forces[1] /= Zero

(***************************************************************************)
(* Properties of the integration wrappers                                  *)
(***************************************************************************)

\* a wrapper's method has returned or raised
WrapperCalled(ops) == wrapper # Idle /\ wrapper.call.op \in ops

\* the positions of the calls made on `callee' during the call
CallsTo(callee) ==
    {i \in 1 .. Len(wrapper.call.calls) : wrapper.call.calls[i].callee = callee}

\* the contact solution in what the call returned
ContactSolution ==
    IF wrapper.call.op = "simulate_contact_and_wear"
    THEN wrapper.call.returned.contact_solution
    ELSE wrapper.call.returned

\* C29: in KPFastSim, MKPFaStrip and KPFastSimUSFD the tangential solver is
\* called only when creepages were given, after the normal solver, and on the
\* contact patch and the normal force the normal solver returned in the same
\* call; without creepages the result has tangential_solution = None and no
\* total_forces, simulate_contact_and_wear returns wear_solution = None and
\* does not call predict_wear; predict_wear raises ValueError on a solution
\* whose tangential_solution is None.
C29_DataFlowsOneWay ==
    /\ WrapperCalled({"solve_contact_problem", "simulate_contact_and_wear"}) =>
          /\ CallsTo("solve_contact_problem") = {1}
          /\ CallsTo("solve_tangential_problem") # {} => wrapper.creepages # None
          /\ \A i \in CallsTo("solve_tangential_problem") :
                /\ i = 2
                /\ wrapper.call.calls[i].arguments
                     = [contact_patch |-> wrapper.call.calls[1].returned.contact_patch,
                        creepages |-> wrapper.creepages[1],
                        normal_force |-> wrapper.call.calls[1].returned.normal_force]
                /\ ContactSolution.tangential_solution
                     = Some(wrapper.call.calls[i].returned)
          /\ (wrapper.creepages = None /\ wrapper.call.returned.raised = "") =>
                /\ ContactSolution.normal_solution = wrapper.call.calls[1].returned
                /\ ContactSolution.tangential_solution = None
                /\ "total_forces" \notin DOMAIN ContactSolution
                /\ Len(wrapper.call.calls) = 1
    /\ (WrapperCalled({"simulate_contact_and_wear"}) /\ wrapper.creepages = None) =>
          /\ CallsTo("predict_wear") = {}
          /\ wrapper.call.calls[1].returned.raised = "" =>
                /\ wrapper.call.returned.raised = ""
                /\ wrapper.call.returned.wear_solution = None
    /\ (WrapperCalled({"predict_wear"})
          /\ wrapper.call.contact_solution.tangential_solution = None) =>
          wrapper.call.returned = [raised |-> "ValueError"]

\* simulate_contact_and_wear without creepages has returned the contact
\* solution of a positive force, with no wear solution
C29_Witness ==
    /\ WrapperCalled({"simulate_contact_and_wear"})
    /\ wrapper.creepages = None
    /\ wrapper.call.returned.raised = ""
    /\ wrapper.call.returned.wear_solution = None
    /\ Positive(wrapper.call.returned.contact_solution.normal_solution.normal_force)

\* solve_contact_problem of MKPFaStrip with creepages has called FaStrip on
\* the patch of a penetration, and the force is not zero
C29_TangentialReached ==
    /\ WrapperCalled({"solve_contact_problem"})
    /\ wrapper.class = "MKPFaStrip" /\ nargs.penetration # None
    /\ CallsTo("solve_tangential_problem") = {2}
    /\ wrapper.call.returned.total_forces.tangential_x # Zero

\* simulate_contact_and_wear with creepages has called predict_wear, which
\* found wear
C29_WearReached ==
    /\ WrapperCalled({"simulate_contact_and_wear"})
    /\ CallsTo("predict_wear") = {3}
    /\ Positive(wrapper.call.returned.wear_solution[1].wear_rate)

\* predict_wear has raised ValueError
C29_ValueErrorReached ==
    /\ WrapperCalled({"predict_wear"})
    /\ wrapper.call.returned = [raised |-> "ValueError"]

\* predict_wear has returned a wear solution
C29_PredictedReached ==
    /\ WrapperCalled({"predict_wear"})
    /\ wrapper.call.returned.raised = ""

(***************************************************************************)
(* Properties of the axis ratio under load                                 *)
(***************************************************************************)

\* the positive normal forces a patch is compared over
ComparedForces == ExactForces(nsolver) \cup OtherForces

\* the patch of the instance and the yaw angle of the call, for a force
PatchUnder(normal_force) == calculate_contact_patch(nsolver, normal_force, ncall.yaw_angle)

\* the factor between the area of a patch and pi * a * b of its semi-axes:
\* the correction factor of a non-elliptical patch, 1 of an elliptical one
AreaFactor(patch) == RDiv(patch.area, RMul(RMul(Pi, patch.a), patch.b))

\* b / a, the root of the ratio of the curvatures at the yaw angle of the call
RootOfCurvatureRatio ==
    SemiAxisB(One, calculate_curvatures(nsolver.wheel_radius, nsolver.rail_radius,
                                        ncall.yaw_angle))

\* C30: for a ModifiedKikPiotrowski instance and a yaw angle, semi_axes_ratio,
\* is_non_elliptical and the correction factor of the patch are those of
\* the patch of every other positive normal force, and the ratio is that of
\* the roots of the two curvatures (in the exact arithmetic of the model).
C30_RatioIgnoresTheLoad ==
    (MKPPatchCalled /\ Positive(ncall.normal_force)) =>
        /\ ncall.result.semi_axes_ratio
             = RMax(RootOfCurvatureRatio, RDiv(One, RootOfCurvatureRatio))
        /\ \A normal_force \in ComparedForces :
              /\ PatchUnder(normal_force).semi_axes_ratio = ncall.result.semi_axes_ratio
              /\ PatchUnder(normal_force).is_non_elliptical = ncall.result.is_non_elliptical
              /\ AreaFactor(PatchUnder(normal_force)) = AreaFactor(ncall.result)

\* a non-elliptical patch at a yaw angle, under a force that changes its size
C30_Witness ==
    /\ MKPPatchCalled /\ Positive(ncall.normal_force)
    /\ ncall.yaw_angle = "pi/6"
    /\ ncall.result.is_non_elliptical
    /\ RLt(AreaFactor(ncall.result), One)
    /\ \E normal_force \in ComparedForces : PatchUnder(normal_force).a # ncall.result.a
====
